---- MODULE Spec2Model ----
(***************************************************************************)
(* Model of gosei's real-time event distribution: the SSE Broker           *)
(* (internal/sse/broker.go), the compose Operation Runner                  *)
(* (handler.ProjectHandler.runComposeOperation) and the executors it       *)
(* drives (docker.ComposeClient, docker.MockComposeClient).                *)
(***************************************************************************)
EXTENDS Integers, Sequences, FiniteSets, TLC

(***************************************************************************)
(* Program constants.                                                      *)
(***************************************************************************)
\* make(chan Event, 64): capacity of one client's mailbox (client.Events).
MailboxCap == 64
\* make(chan Event, 256): capacity of the Broker's intake (b.broadcast).
IntakeCap == 256

(***************************************************************************)
(* Bounds of the exploration.                                              *)
(***************************************************************************)
\* Broadcast calls made by producers in one behaviour.
MaxBroadcast == 2
\* Events the control loop takes from the intake in one behaviour.
MaxPasses == 2
\* Writes one serving loop makes to its transport in one behaviour.
MaxWritten == 3
\* Keep-alive ticks the serving loops take in one behaviour.
MaxTicks == 1
\* time.NewTicker(30 * time.Second): the period of the keep-alive ticker.
KeepAliveInterval == 30
\* A ticker runs long enough to fire MaxTicks times.
MaxAge == KeepAliveInterval * MaxTicks + 1
\* Messages for one client the control loop takes from b.unregister in one
\* behaviour.
MaxUnregisters == 2
\* Rescans of the projects directory in a behaviour.
MaxScans == 1

\* make(chan docker.ComposeOutput, 100): capacity of an Operation's outputCh.
OutputCap == 100
\* Lines one compose run writes to its output (both streams, both
\* sub-commands of an update together).
MaxLines == 2
\* getProjectServices for a project the mock runtime holds no container
\* of: []string{"app"}.
MockServices == 1
\* Containers the runtime lists for a project.
MaxContainers == 2
\* The largest group the status function is tabulated for.
MaxGroup == 5

\* time.Sleep(5 * time.Second) before the Watcher subscribes again.
ReconnectDelay == 5
\* Events the Watcher's feeds deliver, and feeds that end.
MaxEvents == 2
MaxFailures == 3
\* The clock runs long enough for every feed to end and be replaced.
MaxTime == ReconnectDelay * MaxFailures + 1

\* Subscriber connections (one ServeHTTP call each).
Clients == {"c1", "c2"}
\* run holds no client it has yet to insert.
NoClient == "none"
\* The event names producers broadcast in the Broker specification.
EventTypes == {"log"}
\* Operation requests (one runComposeOperation call each).
Ops == {"o1", "o2"}
\* The request of the specifications that follow one Operation alone.
OneOp == {"o1"}
\* A request that reads the projects: GET /api/projects, GET
\* /api/projects/{id}, POST /api/projects/refresh, GET / and GET
\* /partials/projects.
Views == {"v1"}
ViewKinds == {"list", "get", "refresh", "dashboard", "partial"}
Requests == Ops \cup Views
\* The ids scanner.projects holds, and the ids requests name.
ProjectIds == {"p1"}
RequestIds == {"p1", "px"}
\* The operations of ProjectHandler: Up, Down, Pull, Restart, Update.
Operations == {"up", "down", "pull", "restart", "update"}
Streams == {"stdout", "stderr"}
\* The compose project label of a container event: none, a project the
\* scanner knows, a project it does not know.
EventProjects == {"", "p1", "pz"}
\* events.Message.Action of a container event.
EventActions == {"start", "die"}
\* Every action the table of mapActionToState names and some it does not
\* name, the empty string among them.
RawActions == {"start", "stop", "die", "kill", "pause", "unpause", "restart",
               "create", "oom", ""}
\* The ways a feed ends: the events channel is closed, or an error arrives.
FeedEnds == {"closed", "error"}

VARIABLES
  \* ---- Broker (broker.go) ----
  clients,      \* b.clients: the clients the map holds, each under its ID
  ID,           \* client.ID of every connection: the clock reading its
                \* ServeHTTP took, 0 while it has taken none
  Events,       \* client.Events of every connection: the buffered mailbox
  closed,       \* whether client.Events has been closed
  broadcast,    \* b.broadcast: the buffered intake
  cancelled,    \* b.ctx is done (Close was called)
  runPc,        \* Broker.run: "select" | "insert" | "fanout" | "returned" |
                \* "panic"
  regClient,    \* the client run received from b.register and has yet to insert
  fanEvent,     \* the event of the fan-out pass in progress
  fanTodo,      \* clients the range loop of the pass has not visited yet
  connPc,       \* ServeHTTP of every connection
  written,      \* what ServeHTTP wrote to the transport, in order
  reqDone,      \* r.Context() of the connection is done
  tickerC,      \* ticker.C of the connection holds a tick
  tickerAge,    \* seconds the connection's keep-alive ticker has been running
  \* ---- history ----
  nBroadcast,   \* Broadcast calls made so far
  nPasses,      \* events taken from the intake so far
  nTicks,       \* keep-alive ticks the serving loops took so far
  dropped,      \* per client: the events skipped because its mailbox was full
  fanMembers,   \* b.clients at the moment the pass in progress began
  unregs        \* per client: the messages taken from b.unregister for it

\* Broker.run's own position and the pass in progress.
loopVars == <<runPc, regClient, fanEvent, fanTodo, fanMembers, nPasses>>
\* The serving loops.
\* The keep-alive tickers.
tickVars == <<nTicks, tickerC, tickerAge>>
connVars == <<connPc, written, reqDone, tickVars>>
\* Everything of the Broker but its intake.
brokerRest == <<clients, ID, Events, closed, cancelled, loopVars, connVars,
                nBroadcast, dropped,
                 unregs>>
brokerVars == <<broadcast, brokerRest>>

VARIABLES
  \* ---- Operation Runner (ProjectHandler.runComposeOperation) ----
  mock,         \* the executor is MockComposeClient (else ComposeClient)
  projects,     \* scanner.projects: the Project of every known id
  orphans,      \* per id, the Projects the map held earlier, oldest first:
                \* Scan and RefreshProject put new records into the map, and
                \* who took a pointer before goes on using the old record
  req,          \* the HTTP handler of every request: pc, id, operation, status
  outputCh,     \* the Operation's buffered output channel
  chClosed,     \* close(outputCh) has run
  relayPc,      \* the goroutine ranging over outputCh
  relayOut,     \* output: the line the relay has received and not yet
                \* handed to the Broker
  job,          \* the goroutine running the operation (for a read request,
                \* the handler itself): pc, result, err, and what
                \* updateProjectStatus and the event's literal hold: the
                \* pointer p (id and generation), containers, running, the
                \* argument p.Status, the fields read for the event, and
                \* the projects a loop has yet to visit
  exec,         \* the executor inside it: pc, sub-command, open streams, lines
  \* ---- history ----
  handed,       \* the events the Operation passed to BroadcastJSON, in order
  lastWrite     \* per project, what last wrote its Status: "parse" (the
                \* scan), "failed" (a failed member query) or "computed"

runnerVars == <<mock, projects, orphans, req, outputCh, chClosed, relayPc, relayOut, job,
                exec, handed, lastWrite>>

\* What of the Runner the Watcher never touches.
runnerRest == <<mock, orphans, req, outputCh, chClosed, relayPc, relayOut, job, exec,
                handed>>

VARIABLES
  \* ---- Watcher (watchDockerEvents and updateProjectStatus, main.go) ----
  wPc,          \* "start" | "select" | "query" | "members" | "store" |
                \* "publish" | "sleep" | "panic"
  wEvent,       \* event: the container event being handled
  wLocal,       \* updateProjectStatus: proj, containers, running, status
  now,          \* the clock, in seconds
  wakeAt,       \* when the time.Sleep in progress ends
  nEvents,      \* events delivered so far
  \* ---- history ----
  subscribedAt, \* the times of the client.WatchEvents calls
  failedAt,     \* the times the feeds ended
  published,    \* the events the Watcher passed to BroadcastJSON, in order
  recons        \* the recomputations: the member list and the record stored

watchVars == <<wPc, wEvent, wLocal, now, wakeAt, nEvents, subscribedAt,
               failedAt, published, recons>>

VARIABLES
  \* ---- main (main.go) ----
  mainPc        \* "serving" (blocked in <-quit) | "shutdown" (the signal has
                \* arrived: server.Shutdown) | "closing" (main is returning:
                \* broker.Close() has run, dockerClient.Close() has not
                \* returned) | "exited" (the process has ended)

mainVars == <<mainPc>>

vars == <<brokerVars, runnerVars, watchVars, mainVars>>

(***************************************************************************)
(* Events.                                                                 *)
(***************************************************************************)
\* Event{Type, Data}
Event(t, d) == [type |-> t, data |-> d]
NoEvent == Event("none", 0)
\* An event that was enqueued into a mailbox before the behaviour starts.
OldEvent == Event("old", 0)
\* The i-th event that was waiting in the intake when the behaviour starts.
QueuedEvent(i) == Event("queued", i)

\* A non-blocking send on a buffered channel of capacity cap:
\* select { case ch <- e: default: }
TrySendCap(ch, e, cap) == IF Len(ch) < cap THEN Append(ch, e) ELSE ch

(***************************************************************************)
(* Broker.Broadcast: select { case b.broadcast <- Event{..}: default: log } *)
(***************************************************************************)
BroadcastDropsOldest(q, e) ==
  IF Len(q) < IntakeCap THEN Append(q, e) ELSE Append(Tail(q), e)

Broadcast(q, e) == TrySendCap(q, e, IntakeCap)

(***************************************************************************)
(* The non-blocking send of the fan-out pass:                              *)
(* select { case client.Events <- event: default: log }                    *)
(***************************************************************************)
FanOutSendAtTheHead(mbox, e) ==
  IF Len(mbox) < MailboxCap THEN <<e>> \o mbox ELSE mbox

FanOutSendOverwrites(mbox, e) ==
  IF Len(mbox) < MailboxCap THEN Append(mbox, e)
  ELSE Append(SubSeq(mbox, 1, MailboxCap - 1), e)

FanOutSend(mbox, e) == TrySendCap(mbox, e, MailboxCap)

(***************************************************************************)
(* What ServeHTTP writes to the transport.                                 *)
(***************************************************************************)
Connected == [kind |-> "connected", ev |-> NoEvent]
KeepAlive == [kind |-> "keepalive", ev |-> NoEvent]
Wrote(e) == [kind |-> "event", ev |-> e]

\* Broker.ClientCount: len(b.clients) under the read lock.
ClientCount == Cardinality(clients)

(***************************************************************************)
(* Initial states of the Broker: the Broker as NewBroker leaves it, or a   *)
(* running Broker whose intake already holds events that were accepted     *)
(* earlier, with connection c1 being served with a mailbox that earlier    *)
(* fan-out passes filled.                                                  *)
(***************************************************************************)
IntakeLoads == {0, IntakeCap}
\* -1: the connection has not been made yet.
MailboxLoads == [c \in Clients |-> IF c = "c1" THEN {-1, MailboxCap} ELSE {-1}]

BrokerInitWith(load, mload) ==
  /\ clients = {c \in Clients : mload[c] >= 0}
  /\ ID = [c \in Clients |-> IF mload[c] >= 0 THEN 1 ELSE 0]
  /\ Events = [c \in Clients |->
                 IF mload[c] >= 0 THEN [i \in 1..mload[c] |-> OldEvent] ELSE <<>>]
  /\ closed = [c \in Clients |-> FALSE]
  /\ broadcast = [i \in 1..load |-> QueuedEvent(i)]
  /\ cancelled = FALSE
  /\ runPc = "select"
  /\ regClient = NoClient
  /\ fanEvent = NoEvent
  /\ fanTodo = {}
  /\ fanMembers = {}
  /\ connPc = [c \in Clients |-> IF mload[c] >= 0 THEN "serve" ELSE "idle"]
  /\ written = [c \in Clients |-> IF mload[c] >= 0 THEN <<Connected>> ELSE <<>>]
  /\ reqDone = [c \in Clients |-> FALSE]
  /\ nBroadcast = 0
  /\ nPasses = 0
  /\ nTicks = 0
  /\ tickerC = [c \in Clients |-> FALSE]
  /\ tickerAge = [c \in Clients |-> 0]
  /\ dropped = [c \in Clients |-> {}]
  /\ unregs = [c \in Clients |-> 0]

BrokerInit ==
  \E load \in IntakeLoads :
    \E mload \in {f \in [Clients -> {-1, MailboxCap}] :
                    \A c \in Clients : f[c] \in MailboxLoads[c]} :
      BrokerInitWith(load, mload)

(***************************************************************************)
(* A producer calls Broker.Broadcast.  The call is one select with a       *)
(* default case, so it is ready whatever the intake holds.                 *)
(***************************************************************************)
BroadcastReadyWhenRoom(q) == Len(q) < IntakeCap

BroadcastReady(q) == TRUE

Produce(t) ==
  /\ nBroadcast < MaxBroadcast
  /\ BroadcastReady(broadcast)
  /\ broadcast' = Broadcast(broadcast, Event(t, IntakeCap + nBroadcast + 1))
  /\ nBroadcast' = nBroadcast + 1
  /\ UNCHANGED <<clients, ID, Events, closed, cancelled, loopVars, connVars, dropped,
                 unregs>>

(***************************************************************************)
(* Broker.Close: b.cancel().                                               *)
(***************************************************************************)
Close ==
  /\ ~cancelled
  /\ cancelled' = TRUE
  /\ UNCHANGED <<clients, ID, Events, closed, broadcast, loopVars, connVars,
                 nBroadcast, dropped,
                 unregs>>

(***************************************************************************)
(* Broker.run, the control loop.  It is one goroutine: it takes a message  *)
(* only when it stands at its select.                                      *)
(***************************************************************************)
RunAtSelect == runPc = "select"

\* case client := <-b.register: the rendezvous with ServeHTTP's send.  The
\* send returns here, so ServeHTTP goes on while run has yet to take b.mu.
RunRegister(c) ==
  /\ RunAtSelect
  /\ connPc[c] = "register"
  /\ runPc' = "insert"
  /\ regClient' = c
  /\ connPc' = [connPc EXCEPT ![c] = "handshake"]
  /\ UNCHANGED <<clients, ID, Events, closed, broadcast, cancelled, fanEvent,
                 fanTodo, fanMembers, nPasses, written, reqDone, tickVars,
                 nBroadcast, dropped, unregs>>

\* b.clients[client.ID] = client, under b.mu: the client takes the place
\* of the one the map held under the same ID, if any; run is back at its
\* select.
RunInsert(c) ==
  /\ runPc = "insert"
  /\ regClient = c
  /\ clients' = {d \in clients : ID[d] # ID[c]} \cup {c}
  /\ runPc' = "select"
  /\ regClient' = NoClient
  /\ UNCHANGED <<ID, Events, closed, broadcast, cancelled, fanEvent, fanTodo,
                 fanMembers, nPasses, connVars, nBroadcast, dropped, unregs>>

\* b.clients[id]: the client the map holds under the key id, if any.
Keyed(id) == {d \in clients : ID[d] = id}

\* The body of case client := <-b.unregister: if the map holds an entry
\* under client.ID, whoever it is of, the entry is deleted and the
\* mailbox of the client that was sent is closed.
UnregisterBody(c) ==
  /\ clients' = clients \ Keyed(ID[c])
  /\ closed' = IF Keyed(ID[c]) # {} THEN [closed EXCEPT ![c] = TRUE] ELSE closed
  \* close of a closed channel panics
  /\ runPc' = IF Keyed(ID[c]) # {} /\ closed[c] THEN "panic" ELSE runPc

\* case client := <-b.unregister: the rendezvous with ServeHTTP's deferred send.
RunUnregister(c) ==
  /\ RunAtSelect
  /\ connPc[c] = "unregister"
  /\ UnregisterBody(c)
  /\ unregs' = [unregs EXCEPT ![c] = @ + 1]
  /\ connPc' = [connPc EXCEPT ![c] = "done"]
  /\ UNCHANGED <<ID, Events, broadcast, cancelled, regClient, fanEvent, fanTodo, fanMembers,
                 nPasses, written, reqDone, tickVars, nBroadcast, dropped>>

\* case client := <-b.unregister, the message coming from a sender other
\* than the connection's own deferred call: the loop serves whoever sends,
\* whether the client is a member, was one or never was.
Unregister(c) ==
  /\ RunAtSelect
  /\ unregs[c] < MaxUnregisters
  /\ UnregisterBody(c)
  /\ unregs' = [unregs EXCEPT ![c] = @ + 1]
  /\ UNCHANGED <<ID, Events, broadcast, cancelled, regClient, fanEvent, fanTodo, fanMembers,
                 nPasses, connVars, nBroadcast, dropped>>

\* case event := <-b.broadcast: the pass begins; range b.clients visits the
\* members in an order the runtime chooses.
RunBroadcastOnlyWithMembers ==
  /\ RunAtSelect
  /\ broadcast # <<>>
  /\ clients # {}
  /\ nPasses < MaxPasses
  /\ broadcast' = Tail(broadcast)
  /\ fanEvent' = Head(broadcast)
  /\ fanTodo' = clients
  /\ fanMembers' = clients
  /\ runPc' = "fanout"
  /\ nPasses' = nPasses + 1
  /\ UNCHANGED <<clients, ID, Events, closed, cancelled, regClient, connVars,
                 nBroadcast, dropped, unregs>>

RunBroadcast ==
  /\ RunAtSelect
  /\ broadcast # <<>>
  /\ nPasses < MaxPasses
  /\ broadcast' = Tail(broadcast)
  /\ fanEvent' = Head(broadcast)
  /\ fanTodo' = clients
  /\ fanMembers' = clients
  /\ runPc' = IF clients = {} THEN "select" ELSE "fanout"
  /\ nPasses' = nPasses + 1
  /\ UNCHANGED <<clients, ID, Events, closed, cancelled, regClient, connVars,
                 nBroadcast, dropped, unregs>>

\* One iteration of the range loop: the non-blocking send to one member.
FanOut(c) ==
  /\ runPc = "fanout"
  /\ c \in fanTodo
  /\ Events' = [Events EXCEPT ![c] = IF closed[c] THEN @ ELSE FanOutSend(@, fanEvent)]
  /\ dropped' = [dropped EXCEPT ![c] =
                   IF Events'[c] # Events[c] THEN @ ELSE @ \cup {fanEvent}]
  /\ fanTodo' = fanTodo \ {c}
  \* a send on a closed channel panics
  /\ runPc' = IF closed[c] THEN "panic"
              ELSE IF fanTodo' = {} THEN "select" ELSE "fanout"
  /\ UNCHANGED <<clients, ID, closed, broadcast, cancelled, regClient, fanEvent,
                 fanMembers, nPasses, connVars, nBroadcast, unregs>>

\* case <-b.ctx.Done(): close every mailbox, empty the membership, return.
RunDone ==
  /\ RunAtSelect
  /\ cancelled
  /\ closed' = [c \in Clients |-> closed[c] \/ c \in clients]
  /\ clients' = {}
  /\ runPc' = IF \E c \in clients : closed[c] THEN "panic" ELSE "returned"
  /\ UNCHANGED <<ID, Events, broadcast, cancelled, regClient, fanEvent, fanTodo, fanMembers,
                 nPasses, connVars, nBroadcast, dropped,
                 unregs>>

(***************************************************************************)
(* Broker.ServeHTTP, one call per connection.                              *)
(***************************************************************************)
\* The latest clock reading a ServeHTTP call has taken, 0 if none has.
LatestID == CHOOSE t \in {ID[c] : c \in Clients} : \A c \in Clients : ID[c] <= t

\* time.Now().UnixNano() as a ServeHTTP call reads it: what the call
\* before it read, when the clock has not moved on since, or the next
\* value.
UnixNano ==
  IF LatestID = 0 THEN {1} ELSE {LatestID, LatestID + 1}

\* clientID := fmt.Sprintf("%d", time.Now().UnixNano()); the client is
\* created with that ID and an empty mailbox; the handler then blocks in
\* b.register <- client.
ServeStart(c) ==
  /\ connPc[c] = "idle"
  /\ \E t \in UnixNano : ID' = [ID EXCEPT ![c] = t]
  /\ connPc' = [connPc EXCEPT ![c] = "register"]
  /\ UNCHANGED <<clients, Events, closed, broadcast, cancelled, loopVars,
                 written, reqDone, tickVars, nBroadcast, dropped,
                 unregs>>

\* fmt.Fprintf(w, "event: connected ..."); the deferred unregister is armed
\* and the keep-alive ticker is created.
ServeHandshake(c) ==
  /\ connPc[c] = "handshake"
  /\ written' = [written EXCEPT ![c] = Append(@, Connected)]
  /\ connPc' = [connPc EXCEPT ![c] = "serve"]
  /\ tickerC' = [tickerC EXCEPT ![c] = FALSE]
  /\ tickerAge' = [tickerAge EXCEPT ![c] = 0]
  /\ UNCHANGED <<clients, ID, Events, closed, broadcast, cancelled, loopVars,
                 reqDone, nTicks, nBroadcast, dropped,
                 unregs>>

\* case event, ok := <-client.Events with ok: write the event.
ServeEvent(c) ==
  /\ connPc[c] = "serve"
  /\ Events[c] # <<>>
  /\ Len(written[c]) < MaxWritten
  /\ written' = [written EXCEPT ![c] = Append(@, Wrote(Head(Events[c])))]
  /\ Events' = [Events EXCEPT ![c] = Tail(@)]
  /\ UNCHANGED <<clients, ID, closed, broadcast, cancelled, loopVars, connPc,
                 reqDone, tickVars, nBroadcast, dropped,
                 unregs>>

\* case event, ok := <-client.Events with !ok: the mailbox is closed and
\* drained; return, which runs the deferred b.unregister <- client.
ServeClosed(c) ==
  /\ connPc[c] = "serve"
  /\ Events[c] = <<>>
  /\ closed[c]
  /\ connPc' = [connPc EXCEPT ![c] = "unregister"]
  /\ UNCHANGED <<clients, ID, Events, closed, broadcast, cancelled, loopVars,
                 written, reqDone, tickVars, nBroadcast, dropped,
                 unregs>>

\* One second passes.  The ticker of a connection lives from
\* time.NewTicker to the deferred ticker.Stop, that is while the serving
\* loop runs; at every full period the runtime puts a tick into ticker.C,
\* which holds one tick and drops the next while that one waits.
TickerTime ==
  /\ \E c \in Clients : connPc[c] = "serve"
  /\ \A c \in Clients : tickerAge[c] < MaxAge
  /\ tickerAge' = [c \in Clients |->
                     IF connPc[c] = "serve" THEN tickerAge[c] + 1
                     ELSE tickerAge[c]]
  /\ tickerC' = [c \in Clients |->
                   IF connPc[c] = "serve" /\ tickerAge'[c] % KeepAliveInterval = 0
                   THEN TRUE ELSE tickerC[c]]
  /\ UNCHANGED <<clients, ID, Events, closed, broadcast, cancelled, loopVars,
                 connPc, written, reqDone, nTicks, nBroadcast, dropped,
                 unregs>>

\* case <-ticker.C: write the keep-alive comment.  The select takes the
\* case when a tick waits, whatever the other cases hold.
ServeKeepAliveWithoutATick(c) ==
  /\ connPc[c] = "serve"
  /\ Len(written[c]) < MaxWritten
  /\ nTicks < MaxTicks
  /\ nTicks' = nTicks + 1
  /\ tickerC' = [tickerC EXCEPT ![c] = FALSE]
  /\ written' = [written EXCEPT ![c] = Append(@, KeepAlive)]
  /\ UNCHANGED <<clients, ID, Events, closed, broadcast, cancelled, loopVars,
                 connPc, reqDone, tickerAge, nBroadcast, dropped,
                 unregs>>

ServeKeepAlive(c) ==
  /\ connPc[c] = "serve"
  /\ tickerC[c]
  /\ Len(written[c]) < MaxWritten
  /\ nTicks < MaxTicks
  /\ nTicks' = nTicks + 1
  /\ tickerC' = [tickerC EXCEPT ![c] = FALSE]
  /\ written' = [written EXCEPT ![c] = Append(@, KeepAlive)]
  /\ UNCHANGED <<clients, ID, Events, closed, broadcast, cancelled, loopVars,
                 connPc, reqDone, tickerAge, nBroadcast, dropped,
                 unregs>>

\* The subscriber disconnects: r.Context() becomes done.  The serving loop
\* is the only place that looks at it.
Disconnect(c) ==
  /\ connPc[c] = "serve"
  /\ ~reqDone[c]
  /\ reqDone' = [reqDone EXCEPT ![c] = TRUE]
  /\ UNCHANGED <<clients, ID, Events, closed, broadcast, cancelled, loopVars,
                 connPc, written, tickVars, nBroadcast, dropped,
                 unregs>>

\* case <-r.Context().Done(): return, which runs the deferred unregister.
ServeCancelled(c) ==
  /\ connPc[c] = "serve"
  /\ reqDone[c]
  /\ connPc' = [connPc EXCEPT ![c] = "unregister"]
  /\ UNCHANGED <<clients, ID, Events, closed, broadcast, cancelled, loopVars,
                 written, reqDone, tickVars, nBroadcast, dropped,
                 unregs>>

(***************************************************************************)
(* The Operation Runner: ProjectHandler.runComposeOperation.               *)
(***************************************************************************)
\* A nil error.
Nil == "nil"
\* The error of findComposeFile, cmd.StdoutPipe, cmd.StderrPipe or cmd.Start.
LaunchError == "no compose file found"
\* ComposeResult{Success, Message}
ComposeResult(ok, msg) == [Success |-> ok, Message |-> msg]
NoResult == ComposeResult(FALSE, "none")
\* ComposeOutput{Line, Stream}; the text of a line names the sub-command
\* that wrote it (1: the only or first one, 2: the recreate of an update)
\* and its rank among the lines of the Operation.
ComposeOutput(sub, n, stream) == [Line |-> <<sub, n>>, Stream |-> stream]
\* No line: what output holds outside an iteration of the relay.
NoOutput == ComposeOutput(0, 0, "none")

\* json.Marshal of an event struct: the string BroadcastJSON hands on.
Marshal(d) == [json |-> d]

\* Broker.BroadcastJSON: marshal, then Broadcast.
BroadcastJSON(q, t, d) == Broadcast(q, Event(t, Marshal(d)))

ComposeOutputEventAllStdout(id, operation, output) ==
  Event("compose:output",
        Marshal([ProjectID |-> id, Operation |-> operation,
                 Line |-> output.Line, Stream |-> "stdout"]))

\* sse.ComposeOutputEvent as the relay fills it in.
ComposeOutputEvent(id, operation, output) ==
  Event("compose:output",
        Marshal([ProjectID |-> id, Operation |-> operation,
                 Line |-> output.Line, Stream |-> output.Stream]))

\* success := err == nil && result != nil && result.Success
Success(result, err) == err = Nil /\ result.Success

\* message := "Operation completed"; err.Error() on an error;
\* result.Message on a result that reports failure.
Message(result, err) ==
  IF err # Nil THEN err
  ELSE IF ~result.Success THEN result.Message
  ELSE "Operation completed"

\* sse.ComposeCompleteEvent as the Operation's goroutine fills it in.
ComposeCompleteEvent(id, operation, result, err) ==
  Event("compose:complete",
        Marshal([ProjectID |-> id, Operation |-> operation,
                 Success |-> Success(result, err),
                 Message |-> Message(result, err)]))

\* sse.ProjectStatusEvent read from the Project.
ProjectStatusEvent(id, p) ==
  Event("project:status",
        Marshal([ID |-> id, Name |-> p.Name, Status |-> p.Status,
                 Running |-> p.Running, Total |-> p.Total]))

\* The status ProjectHandler.updateProjectStatus derives.
HandlerStatusNoPartial(running, total) ==
  IF running = 0 THEN "stopped" ELSE "running"

HandlerStatus(running, total) ==
  IF running = 0 THEN "stopped"
  ELSE IF running = total THEN "running"
  ELSE "partial"

\* ContainerInfo.State of a member of a project.
ContainerStates == {"running", "exited"}
\* The member lists a query may return.
MemberLists == UNION {[1..m -> ContainerStates] : m \in 0..MaxContainers}

\* What DockerClient.ListContainers may answer: an error, or the containers
\* of the project.
ListContainers ==
  {[err |-> TRUE, containers |-> <<>>]} \cup
  {[err |-> FALSE, containers |-> l] : l \in MemberLists}

\* running := 0; for _, c := range containers { if c.State == "running" { running++ } }
RECURSIVE CountRunning(_)
CountRunning(containers) ==
  IF containers = <<>> THEN 0
  ELSE (IF Head(containers) = "running" THEN 1 ELSE 0) + CountRunning(Tail(containers))

\* context.Background(), the context the Operation runs under, is never done.
CtxDone == FALSE

(***************************************************************************)
(* The executors.                                                          *)
(***************************************************************************)
\* ComposeClient.Update goes on to the recreate only after a pull that
\* returned no error and a result reporting success.
UpdateContinuesAlways(result, err) == TRUE

UpdateContinues(result, err) == err = Nil /\ result.Success

\* MockComposeClient.Update: if err != nil || !result.Success { return }
MockUpdateContinues(result, err) == ~(err # Nil \/ ~result.Success)

\* The number of lines MockComposeClient writes for an operation on a
\* project of n services; Update writes its pull's lines (sub-command 1)
\* and then those of the recreate (sub-command 2).
MockLineCount(operation, sub, n) ==
  CASE operation = "up" -> 1 + 3 * n
    [] operation = "down" -> 1 + 3 * n + 1
    [] operation = "pull" -> 7 * n
    [] operation = "restart" -> 1 + 2 * n
    [] operation = "update" -> IF sub = 1 THEN 7 * n ELSE 2 + 2 * n

MockMessage(operation, sub) ==
  CASE operation = "up" -> "Started successfully"
    [] operation = "down" -> "Stopped successfully"
    [] operation = "pull" -> "Pulled successfully"
    [] operation = "restart" -> "Restarted successfully"
    [] operation = "update" ->
         IF sub = 1 THEN "Pulled successfully" ELSE "Updated successfully"

NoReq == [pc |-> "idle", id |-> "none", operation |-> "none", status |-> 0]
NoJob == [pc |-> "none", result |-> NoResult, err |-> Nil, running |-> 0,
          containers |-> <<>>, id |-> "none", gen |-> 0, arg |-> "none",
          evStatus |-> "none", evRunning |-> 0, todo |-> <<>>]
\* result, err := c.Pull(...) in Update, before the pull has returned.
NoPull == [result |-> NoResult, err |-> Nil]
NoExec == [pc |-> "idle", sub |-> 0, open |-> {}, n |-> 0, k |-> 0,
           pull |-> NoPull]

RunnerIdle ==
  /\ req = [o \in Requests |-> NoReq]
  /\ outputCh = [o \in Ops |-> <<>>]
  /\ chClosed = [o \in Ops |-> FALSE]
  /\ relayPc = [o \in Ops |-> "none"]
  /\ relayOut = [o \in Ops |-> NoOutput]
  /\ job = [o \in Requests |-> NoJob]
  /\ exec = [o \in Ops |-> NoExec]
  /\ handed = [o \in Ops |-> <<>>]

\* Scanner.parseProject: Status "unknown", Total the number of services.
ParsedProject(id, total) ==
  [Name |-> id, Running |-> 0, Total |-> total, Status |-> "unknown"]

\* The generation of the record s.projects holds for id.
Cur(id) == Len(orphans[id]) + 1

\* *p, for a pointer to the record of generation g.
At(g, id) == IF g = Cur(id) THEN projects[id] ELSE orphans[id][g]

\* *p = rec, through such a pointer, with no lock.
SetAt(g, id, rec) ==
  /\ projects' = IF g = Cur(id) THEN [projects EXCEPT ![id] = rec] ELSE projects
  /\ orphans' = IF g = Cur(id) THEN orphans ELSE [orphans EXCEPT ![id][g] = rec]

\* s.mu is write-locked: some goroutine stands between the two writes of
\* Scanner.UpdateProjectStatus.  Every other use of the lock is one step.
MuHeld == wPc = "store" \/ \E r \in Requests : job[r].pc = "store"

\* Scanner.UpdateProjectStatus, its first write: project.Running = running
\* (a project the scanner does not hold is left).
WriteRunningAccumulates(store, id, running) ==
  IF id \in DOMAIN store THEN [store EXCEPT ![id].Running = @ + running]
  ELSE store

WriteRunning(store, id, running) ==
  IF id \in DOMAIN store THEN [store EXCEPT ![id].Running = running]
  ELSE store

\* Scanner.UpdateProjectStatus, its second write: project.Status = status.
WriteStatus(store, id, status) ==
  IF id \in DOMAIN store THEN [store EXCEPT ![id].Status = status]
  ELSE store

\* Scanner.GetProject
GetProjectFindsAll(id) == TRUE

GetProject(id) == id \in DOMAIN projects

\* runComposeOperation up to its two go statements: the lookup, the output
\* channel, the relay goroutine and the goroutine of the operation.
\* The Operations of project id that have been started and have not
\* ended.
InFlight(id) == {o \in Ops : req[o].id = id /\ job[o].pc \notin {"none", "done"}}

\* Between GetProject and the start of the goroutines the handler takes no
\* lock and looks at no other Operation.
RunReadyOnePerProject(o, id) == InFlight(id) = {}

RunReady(o, id) == TRUE

Run(o, id, operation) ==
  /\ req[o].pc = "idle"
  /\ RunReady(o, id)
  /\ ~MuHeld
  /\ IF ~GetProject(id)
     THEN /\ req' = [req EXCEPT ![o] = [pc |-> "answered", id |-> id,
                                       operation |-> operation, status |-> 404]]
          /\ UNCHANGED <<relayPc, job, exec>>
     ELSE /\ req' = [req EXCEPT ![o] = [pc |-> "started", id |-> id,
                                       operation |-> operation, status |-> 0]]
          /\ relayPc' = [relayPc EXCEPT ![o] = "range"]
          /\ job' = [job EXCEPT ![o].pc = "op"]
          /\ exec' = [exec EXCEPT ![o] =
                        [pc |-> IF mock THEN "mock" ELSE "launch", sub |-> 1,
                         open |-> {}, n |-> 0, k |-> 0,
                         pull |-> NoPull]]
  /\ UNCHANGED <<mock, projects, orphans, lastWrite, outputCh, chClosed, relayOut, handed,
                 brokerVars>>

\* writeJSON(w, http.StatusAccepted, ...) can be taken as soon as the
\* goroutines are started.
RespondWaitsForJob(o) == job[o].pc = "done"

RespondReady(o) == TRUE

Respond(o) ==
  /\ req[o].pc = "started"
  /\ RespondReady(o)
  /\ req' = [req EXCEPT ![o].pc = "answered", ![o].status = 202]
  /\ UNCHANGED <<mock, projects, orphans, lastWrite, outputCh, chClosed, relayPc, relayOut, job, exec, handed,
                 brokerVars>>

\* for output := range outputCh: the receive, which frees a slot of the
\* channel.
RelayReceive(o) ==
  /\ relayPc[o] = "range"
  /\ outputCh[o] # <<>>
  /\ relayOut' = [relayOut EXCEPT ![o] = Head(outputCh[o])]
  /\ outputCh' = [outputCh EXCEPT ![o] = Tail(@)]
  /\ relayPc' = [relayPc EXCEPT ![o] = "send"]
  /\ UNCHANGED <<mock, projects, orphans, lastWrite, req, chClosed, job, exec, handed,
                 brokerVars>>

\* h.broker.BroadcastJSON("compose:output", ...) of the line received.
Relay(o) ==
  /\ relayPc[o] = "send"
  /\ LET e == ComposeOutputEvent(req[o].id, req[o].operation, relayOut[o]) IN
       /\ broadcast' = Broadcast(broadcast, e)
       /\ handed' = [handed EXCEPT ![o] = Append(@, e)]
  /\ relayPc' = [relayPc EXCEPT ![o] = "range"]
  /\ relayOut' = [relayOut EXCEPT ![o] = NoOutput]
  /\ UNCHANGED <<mock, projects, orphans, lastWrite, req, outputCh, chClosed, job, exec,
                 brokerRest>>

\* The range ends when outputCh is closed and drained.
RelayEnd(o) ==
  /\ relayPc[o] = "range"
  /\ outputCh[o] = <<>>
  /\ chClosed[o]
  /\ relayPc' = [relayPc EXCEPT ![o] = "done"]
  /\ UNCHANGED <<mock, projects, orphans, lastWrite, req, outputCh, chClosed, relayOut, job, exec, handed,
                 brokerVars>>

(***************************************************************************)
(* ComposeClient.runCompose and ComposeClient.Update.                      *)
(***************************************************************************)
\* result, err := c.Pull(...): what Update holds once its pull has returned.
Pulled(o, result, err) ==
  IF req[o].operation = "update" /\ exec[o].sub = 1
  THEN [result |-> result, err |-> err]
  ELSE exec[o].pull

ReturnSilentOnError(o, result, err) ==
  /\ exec' = [exec EXCEPT ![o].pc = "returned", ![o].pull = Pulled(o, result, err)]
  /\ job' = [job EXCEPT ![o].result = result, ![o].err = err,
                        ![o].pc = IF err = Nil THEN "complete" ELSE "query"]

ReturnReconcilesFirst(o, result, err) ==
  /\ exec' = [exec EXCEPT ![o].pc = "returned", ![o].pull = Pulled(o, result, err)]
  /\ job' = [job EXCEPT ![o].result = result, ![o].err = err, ![o].pc = "query"]

\* The executor returns (result, err) to the Operation's goroutine.
Return(o, result, err) ==
  /\ exec' = [exec EXCEPT ![o].pc = "returned", ![o].pull = Pulled(o, result, err)]
  /\ job' = [job EXCEPT ![o].result = result, ![o].err = err, ![o].pc = "complete"]

\* A sub-command has ended with (result, err): Update goes on to its second
\* sub-command or returns; every other operation returns.
SubCommandEnds(o, result, err) ==
  IF req[o].operation = "update" /\ exec[o].sub = 1 /\ UpdateContinues(result, err)
  THEN /\ exec' = [exec EXCEPT ![o].pc = "launch", ![o].sub = 2,
                               ![o].pull = Pulled(o, result, err)]
       /\ UNCHANGED job
  ELSE Return(o, result, err)

\* findComposeFile, the pipes and cmd.Start: an error returns at once;
\* otherwise the two streamOutput goroutines are started.
RealLaunch(o) ==
  /\ exec[o].pc = "launch"
  /\ \/ SubCommandEnds(o, ComposeResult(FALSE, LaunchError), LaunchError)
     \/ /\ exec' = [exec EXCEPT ![o].pc = "stream", ![o].open = Streams]
        /\ UNCHANGED job
  /\ UNCHANGED <<mock, projects, orphans, lastWrite, req, outputCh, chClosed, relayPc, relayOut, handed,
                 brokerVars>>

\* streamOutput: outputCh <- ComposeOutput{line, stream}, a blocking send.
RealStream(o, stream) ==
  /\ exec[o].pc = "stream"
  /\ stream \in exec[o].open
  /\ exec[o].n < MaxLines
  /\ Len(outputCh[o]) < OutputCap
  /\ outputCh' = [outputCh EXCEPT ![o] =
                    Append(@, ComposeOutput(exec[o].sub, exec[o].n + 1, stream))]
  /\ exec' = [exec EXCEPT ![o].n = @ + 1]
  /\ UNCHANGED <<mock, projects, orphans, lastWrite, req, chClosed, relayPc, relayOut, job, handed, brokerVars>>

\* streamOutput: the stream ends and the goroutine signals done.
RealStreamEnd(o, stream) ==
  /\ exec[o].pc = "stream"
  /\ stream \in exec[o].open
  /\ exec' = [exec EXCEPT ![o].open = @ \ {stream},
                          ![o].pc = IF exec[o].open = {stream} THEN "wait" ELSE @]
  /\ UNCHANGED <<mock, projects, orphans, lastWrite, req, outputCh, chClosed, relayPc, relayOut, job, handed,
                 brokerVars>>

\* <-done; <-done; cmd.Wait(): the command failed or succeeded.
RealWait(o) ==
  /\ exec[o].pc = "wait"
  /\ \/ SubCommandEnds(o, ComposeResult(FALSE, "Command failed: exit status 1"), Nil)
     \/ SubCommandEnds(o, ComposeResult(TRUE, "Operation completed successfully"), Nil)
  /\ UNCHANGED <<mock, projects, orphans, lastWrite, req, outputCh, chClosed, relayPc, relayOut, handed,
                 brokerVars>>

(***************************************************************************)
(* MockComposeClient.                                                      *)
(***************************************************************************)
\* sendOutput: outputCh <- ComposeOutput{line, "stdout"}, a blocking send.
\* The select on ctx.Done() at the head of a service's lines returns
\* (ComposeResult{false, "Operation cancelled"}, ctx.Err()).
MockSend(o) ==
  /\ exec[o].pc = "mock"
  /\ exec[o].k < MockLineCount(req[o].operation, exec[o].sub, MockServices)
  /\ IF CtxDone
     THEN /\ Return(o, ComposeResult(FALSE, "Operation cancelled"), "context canceled")
          /\ UNCHANGED outputCh
     ELSE /\ Len(outputCh[o]) < OutputCap
          /\ outputCh' = [outputCh EXCEPT ![o] =
                            Append(@, ComposeOutput(exec[o].sub, exec[o].n + 1, "stdout"))]
          /\ exec' = [exec EXCEPT ![o].n = @ + 1, ![o].k = @ + 1]
          /\ UNCHANGED job
  /\ UNCHANGED <<mock, projects, orphans, lastWrite, req, chClosed, relayPc, relayOut, handed, brokerVars>>

\* The lines of the operation, or of Update's pull, are written: the mock
\* returns ComposeResult{true, ...}, nil, and Update goes on to its recreate
\* if MockUpdateContinues.
MockEnd(o) ==
  /\ exec[o].pc = "mock"
  /\ exec[o].k = MockLineCount(req[o].operation, exec[o].sub, MockServices)
  /\ LET result == ComposeResult(TRUE, MockMessage(req[o].operation, exec[o].sub)) IN
       IF req[o].operation = "update" /\ exec[o].sub = 1
          /\ MockUpdateContinues(result, Nil)
       THEN /\ exec' = [exec EXCEPT ![o].sub = 2, ![o].k = 0,
                                    ![o].pull = Pulled(o, result, Nil)]
            /\ UNCHANGED job
       ELSE Return(o, result, Nil)
  /\ UNCHANGED <<mock, projects, orphans, lastWrite, req, outputCh, chClosed, relayPc, relayOut, handed,
                 brokerVars>>

(***************************************************************************)
(* The goroutine of the operation, after op has returned.                  *)
(***************************************************************************)
\* h.broker.BroadcastJSON("compose:complete", ...)
OpComplete(o) ==
  /\ job[o].pc = "complete"
  /\ LET e == ComposeCompleteEvent(req[o].id, req[o].operation,
                                   job[o].result, job[o].err) IN
       /\ broadcast' = Broadcast(broadcast, e)
       /\ handed' = [handed EXCEPT ![o] = Append(@, e)]
  /\ job' = [job EXCEPT ![o].pc = "query"]
  /\ UNCHANGED <<mock, projects, orphans, lastWrite, req, outputCh, chClosed, relayPc, relayOut, exec,
                 brokerRest>>

\* The positions of an Operation's goroutine after its compose:complete event.
AfterComplete == {"query", "members", "setUnknown", "setRunning", "setStatus", "argument",
                  "storeRunning", "store", "readStatus", "readRunning",
                  "publish", "close", "done"}

\* The project a request's updateProjectStatus works on.
Target(r) == IF r \in Ops THEN req[r].id ELSE job[r].id

\* h.docker.ListContainers(ctx, p.Name) in updateProjectStatus, and the
\* count of the running containers.
QueryMembers(j) ==
  {[j EXCEPT !.pc = "setUnknown"]} \cup
  {[j EXCEPT !.pc = "setRunning", !.running = CountRunning(answer.containers),
             !.containers = answer.containers] :
     answer \in {a \in ListContainers : ~a.err}}

\* if p, ok := h.scanner.GetProject(id); ok { ... }: the lookup under the
\* read lock, which is released when GetProject returns.  The goroutine
\* then holds p and calls h.updateProjectStatus(ctx, p).
OpLookup(o) ==
  /\ job[o].pc = "query"
  /\ ~MuHeld
  /\ job' = [job EXCEPT ![o].pc = IF GetProject(req[o].id) THEN "members"
                                  ELSE "close",
                        ![o].gen = IF GetProject(req[o].id) THEN Cur(req[o].id)
                                   ELSE @]
  /\ UNCHANGED <<mock, projects, orphans, lastWrite, req, outputCh, chClosed,
                 relayPc, relayOut, exec, handed, brokerVars>>

\* containers, err := h.docker.ListContainers(ctx, p.Name) of the
\* Operation's updateProjectStatus: the runtime answers the call, which
\* has waited for it holding p, and the running containers are counted.
OpQuery(o) ==
  /\ job[o].pc = "members"
  /\ \E j \in QueryMembers(job[o]) : job' = [job EXCEPT ![o] = j]
  /\ UNCHANGED <<mock, projects, orphans, lastWrite, req, outputCh, chClosed,
                 relayPc, relayOut, exec, handed, brokerVars>>

\* for _, p := range projects of a read request: the handler goes to the
\* next pointer of the slice, or writes its response when none is left.
VisitNext(v, kind, rid, todo) ==
  IF todo = <<>>
  THEN /\ job' = [job EXCEPT ![v] = [NoJob EXCEPT !.pc = "done"]]
       /\ req' = [req EXCEPT ![v] = [pc |-> "answered", id |-> rid,
                                     operation |-> kind, status |-> 200]]
  ELSE /\ job' = [job EXCEPT ![v] =
                    [NoJob EXCEPT !.pc = IF kind \in {"dashboard", "partial"}
                                         THEN "pageQuery" ELSE "members",
                                  !.id = Head(todo).id,
                                  !.gen = Head(todo).gen,
                                  !.todo = Tail(todo)]]
       /\ req' = [req EXCEPT ![v] = [pc |-> "started", id |-> rid,
                                     operation |-> kind, status |-> 0]]

\* What follows updateProjectStatus: the Operation goes on to the literal
\* of its event, a read request to the next project of its loop.
AfterUpdate(r) ==
  IF r \in Ops
  THEN /\ job' = [job EXCEPT ![r].pc = "readStatus", ![r].arg = "none"]
       /\ UNCHANGED req
  ELSE VisitNext(r, req[r].operation, req[r].id, job[r].todo)

\* if err != nil { p.Status = "unknown"; return }
OpSetUnknown(r) ==
  /\ job[r].pc = "setUnknown"
  /\ SetAt(job[r].gen, Target(r),
           [At(job[r].gen, Target(r)) EXCEPT !.Status = "unknown"])
  /\ lastWrite' = IF job[r].gen = Cur(Target(r))
                  THEN [lastWrite EXCEPT ![Target(r)] = "failed"] ELSE lastWrite
  /\ AfterUpdate(r)
  /\ UNCHANGED <<mock, outputCh, chClosed, relayPc, relayOut, exec, handed, brokerVars>>

\* p.Running = running
OpSetRunning(r) ==
  /\ job[r].pc = "setRunning"
  /\ SetAt(job[r].gen, Target(r),
           [At(job[r].gen, Target(r)) EXCEPT !.Running = job[r].running])
  /\ job' = [job EXCEPT ![r].pc = "setStatus"]
  /\ UNCHANGED <<mock, lastWrite, req, outputCh, chClosed, relayPc, relayOut, exec, handed,
                 brokerVars>>

\* p.Status = "stopped" | "running" | "partial"
OpSetStatus(r) ==
  /\ job[r].pc = "setStatus"
  /\ SetAt(job[r].gen, Target(r),
           [At(job[r].gen, Target(r)) EXCEPT !.Status =
              HandlerStatus(job[r].running, At(job[r].gen, Target(r)).Total)])
  /\ lastWrite' = IF job[r].gen = Cur(Target(r))
                  THEN [lastWrite EXCEPT ![Target(r)] = "computed"] ELSE lastWrite
  /\ job' = [job EXCEPT ![r].pc = "argument"]
  /\ UNCHANGED <<mock, req, outputCh, chClosed, relayPc, relayOut, exec, handed, brokerVars>>

\* h.scanner.UpdateProjectStatus(p.ID, running, p.Status): the arguments
\* are evaluated, p.Status with no lock, before the call waits for s.mu.
OpArgument(r) ==
  /\ job[r].pc = "argument"
  /\ job' = [job EXCEPT ![r].pc = "storeRunning",
                        ![r].arg = At(job[r].gen, Target(r)).Status]
  /\ UNCHANGED <<mock, projects, orphans, lastWrite, req, outputCh, chClosed,
                 relayPc, relayOut, exec, handed, brokerVars>>

\* Scanner.UpdateProjectStatus: s.mu.Lock() and project.Running = running,
\* on the record the map holds for the id now.
OpStoreRunning(r) ==
  /\ job[r].pc = "storeRunning"
  /\ ~MuHeld
  /\ projects' = WriteRunning(projects, Target(r), job[r].running)
  /\ job' = [job EXCEPT ![r].pc = "store"]
  /\ UNCHANGED <<mock, orphans, lastWrite, req, outputCh, chClosed, relayPc, relayOut, exec,
                 handed, brokerVars>>

\* Scanner.UpdateProjectStatus: project.Status = status and the unlock.
OpStore(r) ==
  /\ job[r].pc = "store"
  /\ projects' = WriteStatus(projects, Target(r), job[r].arg)
  /\ lastWrite' = IF Target(r) \in DOMAIN projects
                  THEN [lastWrite EXCEPT ![Target(r)] =
                          "computed"]
                  ELSE lastWrite
  /\ AfterUpdate(r)
  /\ UNCHANGED <<mock, orphans, outputCh, chClosed, relayPc, relayOut, exec, handed,
                 brokerVars>>

\* sse.ProjectStatusEvent{..., Status: p.Status, ...}: the fields of the
\* literal are read one after another, with no lock.
OpReadStatus(o) ==
  /\ job[o].pc = "readStatus"
  /\ job' = [job EXCEPT ![o].pc = "readRunning",
                        ![o].evStatus = At(job[o].gen, req[o].id).Status]
  /\ UNCHANGED <<mock, projects, orphans, lastWrite, req, outputCh, chClosed,
                 relayPc, relayOut, exec, handed, brokerVars>>

\* Running: p.Running
OpReadRunning(o) ==
  /\ job[o].pc = "readRunning"
  /\ job' = [job EXCEPT ![o].pc = "publish",
                        ![o].evRunning = At(job[o].gen, req[o].id).Running]
  /\ UNCHANGED <<mock, projects, orphans, lastWrite, req, outputCh, chClosed,
                 relayPc, relayOut, exec, handed, brokerVars>>

\* Total: p.Total, and h.broker.BroadcastJSON("project:status", ...).
OpPublish(o) ==
  /\ job[o].pc = "publish"
  /\ LET p == At(job[o].gen, req[o].id)
         e == ProjectStatusEvent(req[o].id,
                                 [Name |-> p.Name, Status |-> job[o].evStatus,
                                  Running |-> job[o].evRunning, Total |-> p.Total]) IN
       /\ broadcast' = Broadcast(broadcast, e)
       /\ handed' = [handed EXCEPT ![o] = Append(@, e)]
  /\ job' = [job EXCEPT ![o].pc = "close"]
  /\ UNCHANGED <<mock, projects, orphans, lastWrite, req, outputCh, chClosed, relayPc, relayOut, exec,
                 brokerRest>>

\* defer close(outputCh)
OpClose(o) ==
  /\ job[o].pc = "close"
  /\ chClosed' = [chClosed EXCEPT ![o] = TRUE]
  /\ job' = [job EXCEPT ![o].pc = "done"]
  /\ UNCHANGED <<mock, projects, orphans, lastWrite, req, outputCh, relayPc, relayOut, exec, handed, brokerVars>>

(***************************************************************************)
(* The requests that read the projects, and the Scanner's rescans.         *)
(***************************************************************************)
\* The order of the compose files in the walk of Scan, and of the slices
\* ListProjects and Scan return (sorted by Name).
ProjectOrder == <<"p1">>

\* Scanner.ListProjects: the pointers the map holds, under the read lock.
ListProjects(store, old) ==
  LET ids == SelectSeq(ProjectOrder, LAMBDA id : id \in DOMAIN store) IN
    [i \in 1..Len(ids) |-> [id |-> ids[i], gen |-> Len(old[ids[i]]) + 1]]

\* Project.Total as the compose file of id declares it; the files do not
\* change while the program runs.
FileTotal(id) ==
  IF id \in DOMAIN projects THEN projects[id].Total
  ELSE orphans[id][Len(orphans[id])].Total

\* Request r holds a pointer to the record of generation g of id: in p, or
\* in the slice its loop ranges over.
Holds(r, id, g) ==
  /\ job[r].pc \notin {"none", "op", "complete", "query", "close", "done"}
  /\ \/ Target(r) = id /\ job[r].gen = g
     \/ \E i \in DOMAIN job[r].todo : job[r].todo[i] = [id |-> id, gen |-> g]

\* The record the map gives up, as those who hold a pointer to it see it;
\* of a record nobody points to, which is garbage, what the file says.
Orphaned(id) ==
  IF \E r \in Requests : Holds(r, id, Cur(id)) THEN projects[id]
  ELSE ParsedProject(id, projects[id].Total)

\* Scanner.Scan: s.projects = make(map...) and a record for each of the
\* first n compose files of the walk; n is short of their number when ctx
\* is done during the walk, and Scan returns the error then.
Scan(n) ==
  /\ ~MuHeld
  /\ \A id \in ProjectIds : Len(orphans[id]) < MaxScans
  /\ projects' = [id \in {ProjectOrder[i] : i \in 1..n} |->
                    ParsedProject(id, FileTotal(id))]
  /\ orphans' = [id \in ProjectIds |->
                   IF id \in DOMAIN projects THEN Append(orphans[id], Orphaned(id))
                   ELSE orphans[id]]
  /\ lastWrite' = [id \in ProjectIds |-> "parse"]

\* Scanner.RefreshProject: the file of a project the map holds is parsed
\* again and s.projects[id] is the new record.  No route calls it.
RefreshProject(id) ==
  /\ ~MuHeld
  /\ id \in DOMAIN projects
  /\ Len(orphans[id]) < MaxScans
  /\ projects' = [projects EXCEPT ![id] = ParsedProject(id, FileTotal(id))]
  /\ orphans' = [orphans EXCEPT ![id] = Append(@, Orphaned(id))]
  /\ lastWrite' = [lastWrite EXCEPT ![id] = "parse"]
  /\ UNCHANGED <<mock, req, outputCh, chClosed, relayPc, relayOut, job, exec, handed,
                 brokerVars>>

\* ProjectHandler.List: GET /api/projects.
List(v) ==
  /\ req[v].pc = "idle"
  /\ ~MuHeld
  /\ VisitNext(v, "list", "none", ListProjects(projects, orphans))
  /\ UNCHANGED <<mock, projects, orphans, lastWrite, outputCh, chClosed, relayPc, relayOut,
                 exec, handed, brokerVars>>

\* ProjectHandler.Get: GET /api/projects/{id}.
Get(v, id) ==
  /\ req[v].pc = "idle"
  /\ ~MuHeld
  /\ IF ~GetProject(id)
     THEN /\ req' = [req EXCEPT ![v] = [pc |-> "answered", id |-> id,
                                        operation |-> "get", status |-> 404]]
          /\ job' = [job EXCEPT ![v].pc = "done"]
     ELSE VisitNext(v, "get", id, <<[id |-> id, gen |-> Cur(id)]>>)
  /\ UNCHANGED <<mock, projects, orphans, lastWrite, outputCh, chClosed, relayPc, relayOut,
                 exec, handed, brokerVars>>

\* ProjectHandler.Refresh: POST /api/projects/refresh.
Refresh(v, n) ==
  /\ req[v].pc = "idle"
  /\ Scan(n)
  /\ IF n < Len(ProjectOrder)
     THEN /\ req' = [req EXCEPT ![v] = [pc |-> "answered", id |-> "none",
                                        operation |-> "refresh", status |-> 500]]
          /\ job' = [job EXCEPT ![v].pc = "done"]
     ELSE VisitNext(v, "refresh", "none", ListProjects(projects', orphans'))
  /\ UNCHANGED <<mock, outputCh, chClosed, relayPc, relayOut, exec, handed, brokerVars>>

\* PageHandler.Dashboard: GET /.
Dashboard(v) ==
  /\ req[v].pc = "idle"
  /\ ~MuHeld
  /\ VisitNext(v, "dashboard", "none", ListProjects(projects, orphans))
  /\ UNCHANGED <<mock, projects, orphans, lastWrite, outputCh, chClosed, relayPc, relayOut,
                 exec, handed, brokerVars>>

\* PageHandler.ProjectsPartial: GET /partials/projects.
ProjectsPartial(v) ==
  /\ req[v].pc = "idle"
  /\ ~MuHeld
  /\ VisitNext(v, "partial", "none", ListProjects(projects, orphans))
  /\ UNCHANGED <<mock, projects, orphans, lastWrite, outputCh, chClosed, relayPc, relayOut,
                 exec, handed, brokerVars>>

\* h.updateProjectStatus(r.Context(), p) of List, Get and Refresh: the
\* ListContainers call.  The writes that follow are the Operation's.
ViewQuery(v) ==
  /\ job[v].pc = "members"
  /\ \E j \in QueryMembers(job[v]) : job' = [job EXCEPT ![v] = j]
  /\ UNCHANGED <<mock, projects, orphans, lastWrite, req, outputCh, chClosed,
                 relayPc, relayOut, exec, handed, brokerVars>>

\* The status PageHandler.updateProjectStatuses derives.
PageStatus(running, total) ==
  CASE running = 0 -> "stopped"
    [] running # 0 /\ running = total -> "running"
    [] OTHER -> "partial"

\* PageHandler.updateProjectStatuses: the ListContainers call; on an error
\* the loop goes on to the next project.
PageQuery(v) ==
  /\ job[v].pc = "pageQuery"
  /\ \E answer \in ListContainers :
       IF answer.err
       THEN VisitNext(v, req[v].operation, req[v].id, job[v].todo)
       ELSE /\ job' = [job EXCEPT ![v].pc = "pageSetRunning",
                                  ![v].running = CountRunning(answer.containers),
                                  ![v].containers = answer.containers]
            /\ UNCHANGED req
  /\ UNCHANGED <<mock, projects, orphans, lastWrite, outputCh, chClosed, relayPc, relayOut,
                 exec, handed, brokerVars>>

\* p.Running = running, with no lock.
PageSetRunning(v) ==
  /\ job[v].pc = "pageSetRunning"
  /\ SetAt(job[v].gen, job[v].id,
           [At(job[v].gen, job[v].id) EXCEPT !.Running = job[v].running])
  /\ job' = [job EXCEPT ![v].pc = "pageSetStatus"]
  /\ UNCHANGED <<mock, lastWrite, req, outputCh, chClosed, relayPc, relayOut, exec, handed,
                 brokerVars>>

\* switch { ... p.Status = ... }, with no lock; the store's
\* UpdateProjectStatus is not called.
PageSetStatus(v) ==
  /\ job[v].pc = "pageSetStatus"
  /\ SetAt(job[v].gen, job[v].id,
           [At(job[v].gen, job[v].id) EXCEPT !.Status =
              PageStatus(job[v].running, At(job[v].gen, job[v].id).Total)])
  /\ lastWrite' = IF job[v].gen = Cur(job[v].id)
                  THEN [lastWrite EXCEPT ![job[v].id] = "computed"] ELSE lastWrite
  /\ VisitNext(v, req[v].operation, req[v].id, job[v].todo)
  /\ UNCHANGED <<mock, outputCh, chClosed, relayPc, relayOut, exec, handed, brokerVars>>

(***************************************************************************)
(* The Watcher: watchDockerEvents and updateProjectStatus (main.go).       *)
(***************************************************************************)
\* A container id as the runtime reports it: 64 characters.
ContainerID == [of |-> "c", len |-> 64]
\* An id of the mock runtime: 12 characters.
MockContainerID == [of |-> "m", len |-> 12]
\* Ids a feed can carry beyond those: one of 11 characters, the empty one.
TruncatedID == [of |-> "t", len |-> 11]
EmptyID == [of |-> "", len |-> 0]
ContainerIDs == {ContainerID, MockContainerID, TruncatedID, EmptyID}

\* event.ID[:12] panics (slice bounds out of range) on a shorter string.
ShortIDPanics(id) == id.len < 12
\* event.ID[:12]
ShortID(id) == [of |-> id.of, len |-> 12]

\* ContainerEvent as Client.WatchEvents fills it in.
ContainerEvent(action, project) ==
  [ID |-> ContainerID, Action |-> action, Name |-> "web", Project |-> project,
   Service |-> "web"]
NoContainerEvent == ContainerEvent("none", "")
FeedEvents == {ContainerEvent(a, p) : a \in EventActions, p \in EventProjects}

\* The events of a feed whose ids are of every kind.
AnyIdEvents ==
  {[ContainerEvent(a, p) EXCEPT !.ID = id] :
     id \in ContainerIDs, a \in EventActions, p \in EventProjects}

\* The events of a feed whose containers do every kind of thing.
AnyFeedEvents == {ContainerEvent(a, p) : a \in RawActions, p \in {"", "pz"}}

\* mapActionToState
mapActionToStateClosed(action) ==
  CASE action \in {"start", "unpause"} -> "running"
    [] action \in {"stop", "die", "kill"} -> "exited"
    [] action = "pause" -> "paused"
    [] action = "restart" -> "restarting"
    [] OTHER -> "unknown"

mapActionToState(action) ==
  CASE action = "start" -> "running"
    [] action \in {"stop", "die", "kill"} -> "exited"
    [] action = "pause" -> "paused"
    [] action = "unpause" -> "running"
    [] action = "restart" -> "restarting"
    [] OTHER -> action

\* sse.ContainerStatusEvent as the Watcher fills it in.
ContainerStatusEvent(event) ==
  Event("container:status",
        Marshal([ID |-> ShortID(event.ID), Name |-> event.Name,
                 Status |-> event.Action, State |-> mapActionToState(event.Action),
                 Project |-> event.Project, Service |-> event.Service]))

\* The status the Watcher's updateProjectStatus derives.
WatcherStatusIgnoresTotal(running, total) ==
  IF running > 0 THEN "running" ELSE "stopped"

WatcherStatus(running, total) ==
  IF running > 0 /\ running = total THEN "running"
  ELSE IF running > 0 THEN "partial"
  ELSE "stopped"

\* The loop over scanner.ListProjects(): the projects of that name.
FindProject(name) == {id \in DOMAIN projects : projects[id].Name = name}

\* The record of an id the map does not hold.
NoProject == [Name |-> "none", Running |-> 0, Total |-> 0, Status |-> "none"]
\* before: the record the map held when the Watcher took the write lock.
NoLocal == [proj |-> "none", total |-> 0, running |-> 0, status |-> "none",
            containers |-> <<>>, before |-> NoProject]
\* s.projects[id], if any.
Stored(id) == IF id \in DOMAIN projects THEN projects[id] ELSE NoProject

WatcherIdle ==
  /\ wPc = "start"
  /\ wEvent = NoContainerEvent
  /\ wLocal = NoLocal
  /\ now = 0
  /\ wakeAt = 0
  /\ nEvents = 0
  /\ subscribedAt = <<>>
  /\ failedAt = <<>>
  /\ published = <<>>
  /\ recons = <<>>

\* main has made its goroutines and waits for a signal: <-quit.
MainIdle == mainPc = "serving"

\* time.Sleep returns when the delay has passed.
SleepOverAtOnce == TRUE

SleepOver == now >= wakeAt

\* events, errs := client.WatchEvents(ctx): at the start, and again when
\* the time.Sleep after a feed's end is over.
WatchSubscribe ==
  /\ \/ wPc = "start"
     \/ wPc = "sleep" /\ SleepOver
  /\ wPc' = "select"
  /\ subscribedAt' = Append(subscribedAt, now)
  /\ UNCHANGED <<wEvent, wLocal, now, wakeAt, nEvents, failedAt, published,
                 recons, brokerVars, runnerVars>>

\* if event.Project != "": the event is of a compose container.
IsComposeEventAlways(event) == TRUE

IsComposeEvent(event) == event.Project # ""

\* case event, ok := <-events: BroadcastJSON("container:status", ...); an
\* event of a compose container goes on to updateProjectStatus.  The
\* arguments of the call are evaluated first: a panic of event.ID[:12]
\* unwinds the goroutine, which recovers nowhere, and ends the process.
WatchEvent(event) ==
  /\ wPc = "select"
  /\ nEvents < MaxEvents
  /\ nEvents' = nEvents + 1
  /\ wEvent' = event
  /\ IF ShortIDPanics(event.ID)
     THEN /\ wPc' = "panic"
          /\ UNCHANGED <<broadcast, published>>
     ELSE /\ broadcast' = Broadcast(broadcast, ContainerStatusEvent(event))
          /\ published' = Append(published, ContainerStatusEvent(event))
          /\ wPc' = IF IsComposeEvent(event) THEN "query" ELSE "select"
  /\ UNCHANGED <<wLocal, now, wakeAt, subscribedAt, failedAt, recons,
                 brokerRest, runnerVars>>

\* updateProjectStatus: projects := scanner.ListProjects(), under the read
\* lock, and the project of that name; return if there is none.  The
\* Watcher then holds proj, whose ID, Name and Total nothing writes.
WatchLookup ==
  /\ wPc = "query"
  /\ ~MuHeld
  /\ IF FindProject(wEvent.Project) = {}
     THEN /\ wPc' = "select"
          /\ UNCHANGED wLocal
     ELSE \E proj \in FindProject(wEvent.Project) :
            /\ wPc' = "members"
            /\ wLocal' = [NoLocal EXCEPT !.proj = proj,
                                         !.total = projects[proj].Total]
  /\ UNCHANGED <<wEvent, now, wakeAt, nEvents, subscribedAt, failedAt,
                 published, recons, brokerVars, runnerVars>>

\* containers, err := client.ListContainers(ctx, projectName): the runtime
\* answers the call (return on an error); the count of the running
\* containers and the status.
WatchQuery ==
  /\ wPc = "members"
  /\ \E answer \in ListContainers :
       IF answer.err
       THEN /\ wPc' = "select"
            /\ UNCHANGED wLocal
       ELSE /\ wPc' = "storeRunning"
            /\ wLocal' =
                 [wLocal EXCEPT
                    !.running = CountRunning(answer.containers),
                    !.status = WatcherStatus(CountRunning(answer.containers),
                                             wLocal.total),
                    !.containers = answer.containers]
  /\ UNCHANGED <<wEvent, now, wakeAt, nEvents, subscribedAt, failedAt,
                 published, recons, brokerVars, runnerVars>>

\* scanner.UpdateProjectStatus(proj.ID, running, status): s.mu.Lock() and
\* project.Running = running.
WatchStoreRunning ==
  /\ wPc = "storeRunning"
  /\ ~MuHeld
  /\ projects' = WriteRunning(projects, wLocal.proj, wLocal.running)
  /\ wLocal' = [wLocal EXCEPT !.before = Stored(wLocal.proj)]
  /\ wPc' = "store"
  /\ UNCHANGED <<wEvent, now, wakeAt, nEvents, subscribedAt, failedAt,
                 published, recons, brokerVars, runnerRest, lastWrite>>

\* Scanner.UpdateProjectStatus: project.Status = status and the unlock.
WatchStore ==
  /\ wPc = "store"
  /\ projects' = WriteStatus(projects, wLocal.proj, wLocal.status)
  /\ lastWrite' = IF wLocal.proj \in DOMAIN projects
                  THEN [lastWrite EXCEPT ![wLocal.proj] = "computed"]
                  ELSE lastWrite
  /\ recons' = Append(recons, [proj |-> wLocal.proj, containers |-> wLocal.containers,
                               running |-> wLocal.running,
                               status |-> wLocal.status,
                               total |-> wLocal.total,
                               before |-> wLocal.before,
                               stored |-> IF wLocal.proj \in DOMAIN projects
                                          THEN projects'[wLocal.proj]
                                          ELSE NoProject])
  /\ wLocal' = [wLocal EXCEPT !.before = NoProject]
  /\ wPc' = "publish"
  /\ UNCHANGED <<wEvent, now, wakeAt, nEvents, subscribedAt, failedAt,
                 published, brokerVars, runnerRest>>

\* The Watcher publishes whatever it has recomputed.
PublishOnlyAChange(before, status, running) ==
  before.Status # status \/ before.Running # running

PublishReady(before, status, running) == TRUE

\* broker.BroadcastJSON("project:status", ...) with the values computed.
WatchPublish ==
  /\ wPc = "publish"
  /\ LET e == ProjectStatusEvent(
                wLocal.proj,
                [Name |-> wEvent.Project, Status |-> wLocal.status,
                 Running |-> wLocal.running, Total |-> wLocal.total]) IN
       IF PublishReady(recons[Len(recons)].before, wLocal.status, wLocal.running)
       THEN /\ broadcast' = Broadcast(broadcast, e)
            /\ published' = Append(published, e)
       ELSE UNCHANGED <<broadcast, published>>
  /\ wPc' = "select"
  /\ UNCHANGED <<wEvent, wLocal, now, wakeAt, nEvents, subscribedAt, failedAt,
                 recons, brokerRest, runnerVars>>

\* The events channel is closed, or errs delivers an error or is closed:
\* goto reconnect, log and time.Sleep(5 * time.Second).
WatchFeedEnds(how) ==
  /\ wPc = "select"
  /\ Len(failedAt) < MaxFailures
  /\ wPc' = "sleep"
  /\ wakeAt' = now + ReconnectDelay
  /\ failedAt' = Append(failedAt, now)
  /\ UNCHANGED <<wEvent, wLocal, now, nEvents, subscribedAt, published, recons,
                 brokerVars, runnerVars>>

\* A second passes.
Tick ==
  /\ now < MaxTime
  /\ now' = now + 1
  /\ UNCHANGED <<wPc, wEvent, wLocal, wakeAt, nEvents, subscribedAt, failedAt,
                 published, recons, brokerVars, runnerVars>>

(***************************************************************************)
(* main: the wait for SIGINT or SIGTERM, server.Shutdown and the return.   *)
(* The signal reaches main alone: watchDockerEvents and the Operations'    *)
(* goroutines run under context.Background() and are told nothing.         *)
(***************************************************************************)
\* <-quit returns: main goes on to server.Shutdown(ctx), which waits up to
\* 30 seconds for the connections to end.
Signal ==
  /\ mainPc = "serving"
  /\ mainPc' = "shutdown"
  /\ UNCHANGED <<brokerVars, runnerVars, watchVars>>

\* server.Shutdown has returned an error: log.Fatalf ends the process at
\* once, and no deferred call runs.
Fatal ==
  /\ mainPc = "shutdown"
  /\ mainPc' = "exited"
  /\ UNCHANGED <<brokerVars, runnerVars, watchVars>>

\* server.Shutdown has returned nil and main returns: its deferred calls
\* run, last registered first: cancel() of the shutdown's context, then
\* broker.Close().  The process is alive and the other goroutines go on.
MainReturns ==
  /\ mainPc = "shutdown"
  /\ mainPc' = "closing"
  /\ cancelled' = TRUE
  /\ UNCHANGED <<clients, ID, Events, closed, broadcast, loopVars, connVars,
                 nBroadcast, dropped, unregs, runnerVars, watchVars>>

\* A goroutine is inside DockerClient.ListContainers, which holds the
\* client's read lock from its first line to its return.
InListContainers ==
  \/ wPc = "members"
  \/ \E r \in Requests : job[r].pc \in {"members", "pageQuery"}

\* The last deferred call, dockerClient.Close(): c.mu.Lock() waits for
\* every ListContainers call in progress.  When Close has returned main
\* has returned and the process ends.
Exit ==
  /\ mainPc = "closing"
  /\ ~InListContainers
  /\ mainPc' = "exited"
  /\ UNCHANGED <<brokerVars, runnerVars, watchVars>>

\* The goroutines run as long as the process does.
ProcessRuns == mainPc # "exited" /\ wPc # "panic"

(***************************************************************************)
(* The Runner with the Broker's intake, empty or full at the request.      *)
(***************************************************************************)
\* The Broker at the request: idle (an empty intake, no subscriber) or
\* saturated (a full intake, a subscriber whose mailbox is full).
RunnerLoads == {<<0, -1>>, <<IntakeCap, MailboxCap>>}
\* Project.Total: the number of services the compose file declares.
Totals == {1, 2}

RunnerInit ==
  /\ \E load \in RunnerLoads :
       BrokerInitWith(load[1], [c \in Clients |-> IF c = "c1" THEN load[2] ELSE -1])
  /\ mock \in BOOLEAN
  /\ projects \in [ProjectIds -> {ParsedProject(id, t) : id \in ProjectIds, t \in Totals}]
  /\ \A id \in ProjectIds : projects[id].Name = id
  /\ lastWrite = [id \in ProjectIds |-> "parse"]
  /\ orphans = [id \in ProjectIds |-> <<>>]
  /\ RunnerIdle
  /\ WatcherIdle
  /\ MainIdle

RunnerStep ==
  \/ \E o \in OneOp, id \in RequestIds, operation \in Operations : Run(o, id, operation)
  \/ \E o \in Ops : Respond(o)
  \/ \E o \in Ops : RelayReceive(o)
  \/ \E o \in Ops : Relay(o)
  \/ \E o \in Ops : RelayEnd(o)
  \/ \E o \in Ops : RealLaunch(o)
  \/ \E o \in Ops, stream \in Streams : RealStream(o, stream)
  \/ \E o \in Ops, stream \in Streams : RealStreamEnd(o, stream)
  \/ \E o \in Ops : RealWait(o)
  \/ \E o \in Ops : MockSend(o)
  \/ \E o \in Ops : MockEnd(o)
  \/ \E o \in Ops : OpComplete(o)
  \/ \E o \in Ops : OpLookup(o)
  \/ \E o \in Ops : OpQuery(o)
  \/ \E o \in Ops : OpSetUnknown(o)
  \/ \E o \in Ops : OpSetRunning(o)
  \/ \E o \in Ops : OpSetStatus(o)
  \/ \E o \in Ops : OpArgument(o)
  \/ \E o \in Ops : OpStoreRunning(o)
  \/ \E o \in Ops : OpStore(o)
  \/ \E o \in Ops : OpReadStatus(o)
  \/ \E o \in Ops : OpReadRunning(o)
  \/ \E o \in Ops : OpPublish(o)
  \/ \E o \in Ops : OpClose(o)

RunnerNext == RunnerStep /\ UNCHANGED <<watchVars, mainVars>>

RunnerSpec == RunnerInit /\ [][RunnerNext]_vars

\* The HTTP server runs every handler to its response; the project has no
\* container when the Operation asks for its members.
RunnerFairSpec ==
  /\ RunnerInit
  /\ [][RunnerNext /\ \A o \in Ops : job'[o].containers = <<>>]_vars
  /\ \A o \in Ops : WF_vars(Respond(o) /\ UNCHANGED <<watchVars, mainVars>>)

\* The Watcher alone, against the clock.
WatcherInit ==
  /\ BrokerInitWith(0, [c \in Clients |-> -1])
  /\ mock = FALSE
  /\ projects \in [ProjectIds -> {ParsedProject(id, t) : id \in ProjectIds, t \in Totals}]
  /\ \A id \in ProjectIds : projects[id].Name = id
  /\ lastWrite = [id \in ProjectIds |-> "parse"]
  /\ orphans = [id \in ProjectIds |-> <<>>]
  /\ RunnerIdle
  /\ WatcherIdle
  /\ MainIdle

\* The Watcher on one feed: events and their reconciliations.
WatcherStep ==
  \/ WatchSubscribe
  \/ \E event \in FeedEvents : WatchEvent(event)
  \/ WatchLookup
  \/ WatchQuery
  \/ WatchStoreRunning
  \/ WatchStore
  \/ WatchPublish

WatcherNext == WatcherStep /\ UNCHANGED mainVars

WatcherSpec == WatcherInit /\ [][WatcherNext]_vars

\* The Watcher against the clock: feeds that end and are replaced, with
\* events of containers outside compose projects in between.
ReconnectStep ==
  \/ WatchSubscribe
  \/ \E event \in FeedEvents : event.Project = "" /\ WatchEvent(event)
  \/ \E how \in FeedEnds : WatchFeedEnds(how)
  \/ Tick

ReconnectNext == ReconnectStep /\ UNCHANGED mainVars

ReconnectSpec == WatcherInit /\ [][ReconnectNext]_vars

\* The Watcher on a feed of containers outside the scanner's projects,
\* whose events carry every action.
\* The Watcher on a feed whose events carry ids of every length.
SurviveStep ==
  \/ WatchSubscribe
  \/ \E event \in AnyIdEvents : WatchEvent(event)
  \/ WatchLookup
  \/ WatchQuery
  \/ WatchStoreRunning
  \/ WatchStore
  \/ WatchPublish

SurviveNext == ProcessRuns /\ SurviveStep /\ UNCHANGED mainVars

SurviveSpec == WatcherInit /\ [][SurviveNext]_vars

NormalizeStep ==
  \/ WatchSubscribe
  \/ \E event \in AnyFeedEvents : WatchEvent(event)
  \/ WatchLookup
  \/ WatchQuery

NormalizeNext == NormalizeStep /\ UNCHANGED mainVars

NormalizeSpec == WatcherInit /\ [][NormalizeNext]_vars

\* The Watcher while main shuts the process down: feeds that end and are
\* replaced, the signal (it arrives when the Watcher has subscribed) and
\* the end of the process.
ShutdownWatcherStep ==
  \/ WatchSubscribe
  \/ \E how \in FeedEnds : WatchFeedEnds(how)
  \/ Tick

ShutdownNext ==
  \/ subscribedAt # <<>> /\ Signal
  \/ Fatal
  \/ MainReturns
  \/ Exit
  \/ ProcessRuns /\ RunDone /\ UNCHANGED <<runnerVars, watchVars, mainVars>>
  \/ ProcessRuns /\ ShutdownWatcherStep /\ UNCHANGED mainVars

ShutdownSpec == WatcherInit /\ [][ShutdownNext]_vars

\* An Operation while main shuts the process down: the signal arrives
\* while the action runs, and server.Shutdown returns when the request has
\* been answered; the Broker is idle and has no subscriber.
OperationShutdownInit ==
  /\ BrokerInitWith(0, [c \in Clients |-> -1])
  /\ mock \in BOOLEAN
  /\ projects = [id \in ProjectIds |-> ParsedProject(id, 1)]
  /\ lastWrite = [id \in ProjectIds |-> "parse"]
  /\ orphans = [id \in ProjectIds |-> <<>>]
  /\ RunnerIdle
  /\ WatcherIdle
  /\ MainIdle

OperationShutdownNext ==
  \/ (\E o \in Ops : job[o].pc = "op") /\ Signal
  \/ (\A o \in Ops : req[o].pc # "started") /\ Fatal
  \/ (\A o \in Ops : req[o].pc # "started") /\ MainReturns
  \/ Exit
  \/ ProcessRuns /\ RunDone /\ UNCHANGED <<runnerVars, watchVars, mainVars>>
  \/ ProcessRuns /\ RunnerStep /\ UNCHANGED <<watchVars, mainVars>>

OperationShutdownSpec == OperationShutdownInit /\ [][OperationShutdownNext]_vars

\* Two requests for the same project, a restart and an up, against the
\* mock executor, each followed up to its compose:complete event; the
\* Broker's intake is empty and keeps what it is handed.
ConcurrentInit ==
  /\ BrokerInitWith(0, [c \in Clients |-> -1])
  /\ mock = TRUE
  /\ projects = [id \in ProjectIds |-> ParsedProject(id, 1)]
  /\ lastWrite = [id \in ProjectIds |-> "parse"]
  /\ orphans = [id \in ProjectIds |-> <<>>]
  /\ RunnerIdle
  /\ WatcherIdle
  /\ MainIdle

ConcurrentStep ==
  \/ \E o \in Ops, id \in ProjectIds :
       Run(o, id, IF o = "o1" THEN "restart" ELSE "up")
  \/ \E o \in Ops : RelayReceive(o)
  \/ \E o \in Ops : Relay(o)
  \/ \E o \in Ops : MockSend(o)
  \/ \E o \in Ops : MockEnd(o)
  \/ \E o \in Ops : OpComplete(o)

ConcurrentNext == ConcurrentStep /\ UNCHANGED <<watchVars, mainVars>>

ConcurrentSpec == ConcurrentInit /\ [][ConcurrentNext]_vars

\* One Operation on the real executor with the Broker's intake full from
\* the request on.  The command writes up to MaxLines lines and its streams
\* end whenever they end, whatever outputCh holds; the member query of the
\* reconciliation is answered with an error or with any list of containers.
OutputInit ==
  /\ BrokerInitWith(IntakeCap, [c \in Clients |-> -1])
  /\ mock = FALSE
  /\ projects = [id \in ProjectIds |-> ParsedProject(id, 1)]
  /\ lastWrite = [id \in ProjectIds |-> "parse"]
  /\ orphans = [id \in ProjectIds |-> <<>>]
  /\ WatcherIdle
  /\ MainIdle
  /\ RunnerIdle

OutputStep ==
  \/ \E o \in OneOp, id \in ProjectIds : Run(o, id, "up")
  \/ \E o \in Ops : Respond(o)
  \/ \E o \in Ops : RelayReceive(o)
  \/ \E o \in Ops : Relay(o)
  \/ \E o \in Ops : RelayEnd(o)
  \/ \E o \in Ops : RealLaunch(o)
  \/ \E o \in Ops, stream \in Streams : RealStream(o, stream)
  \/ \E o \in Ops, stream \in Streams : RealStreamEnd(o, stream)
  \/ \E o \in Ops : RealWait(o)
  \/ \E o \in Ops : OpComplete(o)
  \/ \E o \in Ops : OpLookup(o)
  \/ \E o \in Ops : OpQuery(o)
  \/ \E o \in Ops : OpSetUnknown(o)
  \/ \E o \in Ops : OpSetRunning(o)
  \/ \E o \in Ops : OpSetStatus(o)
  \/ \E o \in Ops : OpArgument(o)
  \/ \E o \in Ops : OpStoreRunning(o)
  \/ \E o \in Ops : OpStore(o)
  \/ \E o \in Ops : OpReadStatus(o)
  \/ \E o \in Ops : OpReadRunning(o)
  \/ \E o \in Ops : OpPublish(o)
  \/ \E o \in Ops : OpClose(o)

OutputNext == OutputStep /\ UNCHANGED <<watchVars, mainVars>>

\* The Go scheduler runs every goroutine that can take a step of its own:
\* the relay, and the goroutine of the operation between its calls.  The
\* command and the container runtime are not the scheduler's: nothing in
\* the code makes the command write, end its streams or exit, and the
\* member query (ListContainers under context.Background(), without a
\* timeout) returns only when the runtime answers; no fairness is assumed
\* of either.
OutputFairness ==
  \A o \in Ops :
    /\ WF_vars(RelayReceive(o) /\ UNCHANGED <<watchVars, mainVars>>)
    /\ WF_vars(Relay(o) /\ UNCHANGED <<watchVars, mainVars>>)
    /\ WF_vars(RelayEnd(o) /\ UNCHANGED <<watchVars, mainVars>>)
    /\ WF_vars(OpComplete(o) /\ UNCHANGED <<watchVars, mainVars>>)
    /\ WF_vars(OpLookup(o) /\ UNCHANGED <<watchVars, mainVars>>)
    /\ WF_vars(OpSetRunning(o) /\ UNCHANGED <<watchVars, mainVars>>)
    /\ WF_vars(OpSetStatus(o) /\ UNCHANGED <<watchVars, mainVars>>)
    /\ WF_vars(OpSetUnknown(o) /\ UNCHANGED <<watchVars, mainVars>>)
    /\ WF_vars(OpArgument(o) /\ UNCHANGED <<watchVars, mainVars>>)
    /\ WF_vars(OpStoreRunning(o) /\ UNCHANGED <<watchVars, mainVars>>)
    /\ WF_vars(OpStore(o) /\ UNCHANGED <<watchVars, mainVars>>)
    /\ WF_vars(OpReadStatus(o) /\ UNCHANGED <<watchVars, mainVars>>)
    /\ WF_vars(OpReadRunning(o) /\ UNCHANGED <<watchVars, mainVars>>)
    /\ WF_vars(OpPublish(o) /\ UNCHANGED <<watchVars, mainVars>>)
    /\ WF_vars(OpClose(o) /\ UNCHANGED <<watchVars, mainVars>>)

OutputSpec == OutputInit /\ [][OutputNext]_vars /\ OutputFairness

\* Status Reconciliation from its call sites at once: the Watcher on the
\* first event of its feed, the start of a container of the project, and a
\* restart of the same project whose command cannot be launched; the
\* Broker's intake is full.
StatusInit ==
  /\ BrokerInitWith(IntakeCap, [c \in Clients |-> -1])
  /\ mock = FALSE
  /\ projects \in [ProjectIds -> {ParsedProject(id, t) : id \in ProjectIds, t \in Totals}]
  /\ \A id \in ProjectIds : projects[id].Name = id
  /\ lastWrite = [id \in ProjectIds |-> "parse"]
  /\ orphans = [id \in ProjectIds |-> <<>>]
  /\ RunnerIdle
  /\ WatcherIdle
  /\ MainIdle

StatusRunnerStep ==
  \/ \E o \in OneOp, id \in ProjectIds : Run(o, id, "restart")
  \/ \E o \in Ops : Respond(o)
  \/ \E o \in Ops : RelayEnd(o)
  \/ \E o \in Ops : RealLaunch(o) /\ exec'[o].pc = "returned"
  \/ \E o \in Ops : OpComplete(o)
  \/ \E o \in Ops : OpLookup(o)
  \/ \E o \in Ops : OpQuery(o)
  \/ \E o \in Ops : OpSetUnknown(o)
  \/ \E o \in Ops : OpSetRunning(o)
  \/ \E o \in Ops : OpSetStatus(o)
  \/ \E o \in Ops : OpArgument(o)
  \/ \E o \in Ops : OpStoreRunning(o)
  \/ \E o \in Ops : OpStore(o)
  \/ \E o \in Ops : OpReadStatus(o)
  \/ \E o \in Ops : OpReadRunning(o)
  \/ \E o \in Ops : OpPublish(o)
  \/ \E o \in Ops : OpClose(o)

StatusWatcherStep ==
  \/ WatchSubscribe
  \/ \E event \in FeedEvents :
       /\ nEvents = 0
       /\ event.Project \in ProjectIds
       /\ event.Action = "start"
       /\ WatchEvent(event)
  \/ WatchLookup
  \/ WatchQuery
  \/ WatchStoreRunning
  \/ WatchStore
  \/ WatchPublish

StatusNext ==
  \/ StatusRunnerStep /\ UNCHANGED <<watchVars, mainVars>>
  \/ StatusWatcherStep /\ UNCHANGED mainVars

StatusSpec == StatusInit /\ [][StatusNext]_vars

\* A request that reads the projects, or rescans them, and a container
\* event, arriving once the Operation of StatusSpec, which has answered its
\* request at once, has handed over its compose:complete event.
StoreViewStep ==
  \/ \E v \in Views : List(v)
  \/ \E v \in Views, id \in RequestIds : Get(v, id)
  \/ \E v \in Views, n \in 0..Len(ProjectOrder) : Refresh(v, n)
  \/ \E v \in Views : Dashboard(v)
  \/ \E v \in Views : ProjectsPartial(v)
  \/ \E v \in Views : ViewQuery(v)
  \/ \E v \in Views : OpSetUnknown(v)
  \/ \E v \in Views : OpSetRunning(v)
  \/ \E v \in Views : OpSetStatus(v)
  \/ \E v \in Views : OpArgument(v)
  \/ \E v \in Views : OpStoreRunning(v)
  \/ \E v \in Views : OpStore(v)
  \/ \E v \in Views : PageQuery(v)
  \/ \E v \in Views : PageSetRunning(v)
  \/ \E v \in Views : PageSetStatus(v)
  \/ \E id \in ProjectIds : RefreshProject(id)

\* The member lists the runtime answers with in StoreSpec: no container,
\* or one that runs.
StoreLists == {<<>>, <<"running">>}

Arrived == job["o1"].pc \in AfterComplete

StoreNext ==
  /\ \/ StatusRunnerStep /\ UNCHANGED <<watchVars, mainVars>>
     \/ Arrived /\ StatusWatcherStep /\ UNCHANGED mainVars
     \/ Arrived /\ StoreViewStep /\ UNCHANGED <<watchVars, mainVars>>
  /\ req["o1"].pc = "started" => req'["o1"].pc = "answered"
  /\ \A r \in Requests : job'[r].containers \in StoreLists
  /\ wLocal'.containers \in StoreLists

\* The project declares one service.
StoreInit == StatusInit /\ projects["p1"].Total = 1

StoreSpec == StoreInit /\ [][StoreNext]_vars

\* StatusSpec with a second request, which names an id the scanner does
\* not hold.
NotFoundNext ==
  \/ StatusNext
  \/ /\ \E o \in Ops \ OneOp, id \in RequestIds \ ProjectIds, operation \in Operations :
          Run(o, id, operation)
     /\ UNCHANGED <<watchVars, mainVars>>

NotFoundSpec == StatusInit /\ [][NotFoundNext]_vars

\* The two reconciliations of StatusSpec with a runtime that answers every
\* member query.
ReconcileNext ==
  \/ /\ StatusRunnerStep
     /\ \A o \in Ops : job[o].pc = "members" => job'[o].pc \in {"members", "setRunning"}
     /\ UNCHANGED <<watchVars, mainVars>>
  \/ /\ StatusWatcherStep
     /\ wPc = "members" => wPc' = "storeRunning"
     /\ UNCHANGED mainVars

ReconcileSpec == StatusInit /\ [][ReconcileNext]_vars

\* The Broker with its producers and its subscribers; no keep-alive tick
\* falls into the behaviour.
BrokerStep ==
  \/ \E t \in EventTypes : Produce(t)
  \/ Close
  \/ \E c \in Clients : RunRegister(c)
  \/ \E c \in Clients : RunInsert(c)
  \/ \E c \in Clients : RunUnregister(c)
  \/ RunBroadcast
  \/ \E c \in Clients : FanOut(c)
  \/ RunDone
  \/ \E c \in Clients : ServeStart(c)
  \/ \E c \in Clients : ServeHandshake(c)
  \/ \E c \in Clients : ServeEvent(c)
  \/ \E c \in Clients : ServeClosed(c)
  \/ \E c \in Clients : Disconnect(c)
  \/ \E c \in Clients : ServeCancelled(c)

\* The Broker with one connection, whose keep-alive ticker runs.
KeepAliveStep ==
  \/ \E t \in EventTypes : Produce(t)
  \/ \E c \in Clients : RunRegister(c)
  \/ \E c \in Clients : RunInsert(c)
  \/ \E c \in Clients : RunUnregister(c)
  \/ RunBroadcast
  \/ \E c \in Clients : FanOut(c)
  \/ ServeStart("c1")
  \/ \E c \in Clients : ServeHandshake(c)
  \/ \E c \in Clients : ServeEvent(c)
  \/ \E c \in Clients : ServeKeepAlive(c)
  \/ TickerTime
  \/ \E c \in Clients : Disconnect(c)
  \/ \E c \in Clients : ServeCancelled(c)

\* The Broker whose unregister channel has a second sender.
UnregisterStep ==
  \/ BrokerStep
  \/ \E c \in Clients : Unregister(c)

\* In the Broker's specification no Operation is requested.
Init ==
  /\ BrokerInit
  /\ mock = FALSE
  /\ projects = [id \in ProjectIds |-> ParsedProject(id, 1)]
  /\ lastWrite = [id \in ProjectIds |-> "parse"]
  /\ orphans = [id \in ProjectIds |-> <<>>]
  /\ RunnerIdle
  /\ WatcherIdle
  /\ MainIdle

Next == BrokerStep /\ UNCHANGED <<runnerVars, watchVars, mainVars>>

Spec == Init /\ [][Next]_vars

\* The Broker as NewBroker leaves it.
NewBrokerInit ==
  /\ BrokerInitWith(0, [c \in Clients |-> -1])
  /\ mock = FALSE
  /\ projects = [id \in ProjectIds |-> ParsedProject(id, 1)]
  /\ lastWrite = [id \in ProjectIds |-> "parse"]
  /\ orphans = [id \in ProjectIds |-> <<>>]
  /\ RunnerIdle
  /\ WatcherIdle
  /\ MainIdle

\* The Go scheduler runs every goroutine that can take a step: the
\* control loop and the serving loops go on as long as they are not
\* blocked.  Producers, Close, new connections and disconnections are the
\* environment's and owe nothing.
BrokerFairness ==
  /\ \A c \in Clients :
       /\ WF_vars(RunRegister(c) /\ UNCHANGED <<runnerVars, watchVars, mainVars>>)
       /\ WF_vars(RunInsert(c) /\ UNCHANGED <<runnerVars, watchVars, mainVars>>)
       /\ WF_vars(RunUnregister(c) /\ UNCHANGED <<runnerVars, watchVars, mainVars>>)
       /\ WF_vars(FanOut(c) /\ UNCHANGED <<runnerVars, watchVars, mainVars>>)
       /\ WF_vars(ServeHandshake(c) /\ UNCHANGED <<runnerVars, watchVars, mainVars>>)
       /\ WF_vars(ServeEvent(c) /\ UNCHANGED <<runnerVars, watchVars, mainVars>>)
       /\ WF_vars(ServeClosed(c) /\ UNCHANGED <<runnerVars, watchVars, mainVars>>)
       /\ WF_vars(ServeCancelled(c) /\ UNCHANGED <<runnerVars, watchVars, mainVars>>)
  /\ WF_vars(RunBroadcast /\ UNCHANGED <<runnerVars, watchVars, mainVars>>)
  /\ WF_vars(RunDone /\ UNCHANGED <<runnerVars, watchVars, mainVars>>)

BrokerFairSpec == NewBrokerInit /\ [][Next]_vars /\ BrokerFairness

KeepAliveNext == KeepAliveStep /\ UNCHANGED <<runnerVars, watchVars, mainVars>>

KeepAliveSpec == NewBrokerInit /\ [][KeepAliveNext]_vars

\* A running Broker whose intake is empty, with connection c1 being served
\* with a full mailbox.
IntakeInit ==
  /\ BrokerInitWith(0, [c \in Clients |-> IF c = "c1" THEN MailboxCap ELSE -1])
  /\ mock = FALSE
  /\ projects = [id \in ProjectIds |-> ParsedProject(id, 1)]
  /\ lastWrite = [id \in ProjectIds |-> "parse"]
  /\ orphans = [id \in ProjectIds |-> <<>>]
  /\ RunnerIdle
  /\ WatcherIdle
  /\ MainIdle

\* The Go scheduler runs the control loop whenever it can take a step;
\* its select chooses at random among the cases that are ready, so a case
\* that stays ready is taken.  The serving loops, the producers and the
\* subscribers owe nothing.
RunFairness ==
  /\ \A c \in Clients :
       /\ WF_vars(RunRegister(c) /\ UNCHANGED <<runnerVars, watchVars, mainVars>>)
       /\ WF_vars(RunInsert(c) /\ UNCHANGED <<runnerVars, watchVars, mainVars>>)
       /\ WF_vars(RunUnregister(c) /\ UNCHANGED <<runnerVars, watchVars, mainVars>>)
       /\ WF_vars(FanOut(c) /\ UNCHANGED <<runnerVars, watchVars, mainVars>>)
  /\ WF_vars(RunBroadcast /\ UNCHANGED <<runnerVars, watchVars, mainVars>>)
  /\ WF_vars(RunDone /\ UNCHANGED <<runnerVars, watchVars, mainVars>>)

IntakeFairSpec == IntakeInit /\ [][Next]_vars /\ RunFairness

UnregisterNext == UnregisterStep /\ UNCHANGED <<runnerVars, watchVars, mainVars>>

UnregisterSpec == NewBrokerInit /\ [][UnregisterNext]_vars

(***************************************************************************)
(* Properties of the Broker.                                               *)
(***************************************************************************)
Range(s) == {s[i] : i \in DOMAIN s}

\* Event e has reached client c: it waits in c's mailbox or was written to
\* c's transport.
Reached(c, e) == e \in Range(Events[c]) \/ Wrote(e) \in Range(written[c])

\* How often event e occurs in c's mailbox and c's transport together.
Copies(c, e) ==
  Cardinality({i \in DOMAIN Events[c] : Events[c][i] = e})
  + Cardinality({i \in DOMAIN written[c] : written[c][i] = Wrote(e)})

\* The step is the pass's non-blocking send to client c.
OfferTo(c) == runPc = "fanout" /\ c \in fanTodo /\ c \notin fanTodo'

\* C1: when the pass offers an event to a client whose mailbox holds
\* MailboxCap events, the mailbox stays as it is and the event is recorded as
\* dropped for that client alone; offered to a client with room, the event is
\* appended at the tail of its mailbox; a dropped event never reaches the
\* client later; no event of the intake reaches a client twice; and when the
\* pass is over every member of the pass either holds the event exactly once
\* or has it recorded as dropped.
C1_FullMailboxDropsForThatClientOnly ==
  /\ [](\A c \in Clients :
          /\ \A e \in dropped[c] : ~Reached(c, e)
          /\ \A e \in Range(Events[c]) : e # OldEvent => Copies(c, e) = 1
          /\ (runPc = "select" /\ nPasses > 0 /\ c \in fanMembers)
               => (fanEvent \in dropped[c]) # (Copies(c, fanEvent) = 1))
  /\ [][\A c \in Clients :
          OfferTo(c) =>
            /\ IF Len(Events[c]) = MailboxCap
               THEN Events'[c] = Events[c] /\ dropped'[c] = dropped[c] \cup {fanEvent}
               ELSE Events'[c] = Append(Events[c], fanEvent) /\ dropped'[c] = dropped[c]
            /\ \A d \in Clients \ {c} :
                 Events'[d] = Events[d] /\ dropped'[d] = dropped[d]]_vars

\* A pass has dropped its event for one member whose mailbox is full and has
\* enqueued it for another member.
C1_Witness ==
  \E c, d \in Clients :
    /\ c # d
    /\ nPasses > 0 /\ runPc = "select"
    /\ {c, d} \subseteq fanMembers
    /\ fanEvent \in dropped[c] /\ Len(Events[c]) = MailboxCap
    /\ fanEvent \in Range(Events[d])

\* The step is a Broadcast call.
BroadcastCall == nBroadcast' = nBroadcast + 1

\* C2: as long as a producer has a call to make, the call can be taken in
\* every reachable state (whatever the mailboxes hold, wherever the control
\* loop stands, also after it has returned), and the call appends the event
\* to the intake if the intake holds fewer than IntakeCap events and leaves
\* the intake as it is otherwise.
C2_BroadcastNeverBlocks ==
  /\ [](nBroadcast < MaxBroadcast => \A t \in EventTypes : ENABLED Produce(t))
  /\ [][BroadcastCall =>
          \E t \in EventTypes :
            LET e == Event(t, IntakeCap + nBroadcast + 1) IN
              IF Len(broadcast) < IntakeCap
              THEN broadcast' = Append(broadcast, e)
              ELSE broadcast' = broadcast]_vars

\* A Broadcast call found the intake full and dropped its event, while a
\* mailbox was full and the control loop had returned.
C2_Witness ==
  /\ nBroadcast > 0 /\ nPasses = 0
  /\ Len(broadcast) = IntakeCap
  /\ \A i \in DOMAIN broadcast : broadcast[i].type = "queued"
  /\ \E c \in Clients : Len(Events[c]) = MailboxCap
  /\ runPc = "returned"

\* The connections whose Register has been taken by the control loop and
\* whose Unregister has not.
NetMembers == {c \in Clients : connPc[c] \in {"handshake", "serve", "unregister"}}

\* C3: while a pass is in progress the membership is the membership at the
\* moment the event was taken from the intake, and that membership is
\* exactly the clients registered and not yet unregistered at that moment;
\* the event has been offered (enqueued or dropped) to exactly the members
\* of that moment the range loop has visited; once the pass is over it has
\* been offered to exactly the members of that moment.
C3_FanOutToMembersOfTheMoment ==
  /\ runPc = "fanout" =>
       /\ clients = fanMembers /\ fanTodo \subseteq fanMembers
       /\ fanMembers = NetMembers
  /\ nPasses > 0 =>
       \A c \in Clients :
         (Reached(c, fanEvent) \/ fanEvent \in dropped[c])
           <=> c \in fanMembers \ (IF runPc = "fanout" THEN fanTodo ELSE {})

\* C4: while the control loop runs, the membership is exactly the set of
\* clients whose Register it has processed and whose Unregister it has not,
\* and ClientCount is the size of that set.
C4_MembershipIsNetEffect ==
  runPc \in {"select", "fanout"} =>
    clients = NetMembers /\ ClientCount = Cardinality(NetMembers)

(***************************************************************************)
(* The Operation Runner's claims.                                          *)
(***************************************************************************)
\* The events of a type that the Operation's goroutines have handed to
\* Broker.Broadcast, in the order of the calls.
Handed(o, t) == SelectSeq(handed[o], LAMBDA e : e.type = t)
Completes(o) == Handed(o, "compose:complete")
Outputs(o) == Handed(o, "compose:output")
\* C5: every accepted Operation hands exactly one compose:complete event to
\* the Broker: none before its action has returned, never two, and once the
\* action has returned (with success, with a result reporting failure or
\* with an error) the broadcast of the event is the goroutine's next step
\* and nothing can hold it back.
C5_ExactlyOneCompleteEvent ==
  \A o \in Ops :
    /\ Len(Completes(o)) <= 1
    /\ job[o].pc \in {"none", "op", "complete"} => Len(Completes(o)) = 0
    /\ job[o].pc \in AfterComplete => Len(Completes(o)) = 1
    /\ job[o].pc = "complete" => ENABLED OpComplete(o)

C5_Witness ==
  \E o \in Ops :
    /\ job[o].pc = "done"
    /\ job[o].err # Nil
    /\ Len(Completes(o)) = 1

\* C6: no compose:output event follows a compose:complete event in the
\* Broker's intake.
C6_NoOutputAfterCompleteInIntake ==
  \A i, j \in 1..Len(broadcast) :
    (i < j /\ broadcast[i].type = "compose:complete")
      => broadcast[j].type # "compose:output"

\* The line the relay has received and not yet handed to the Broker.
Held(o) == IF relayPc[o] = "send" THEN <<relayOut[o]>> ELSE <<>>

\* C7: the lines the action has written to outputCh are, in the order of
\* their writing, the output events handed to the Broker, followed by the
\* line the relay holds, if any, and by the lines still in the channel; a
\* line in the channel can be received at once by the relay that holds
\* none, and a line held can be handed over at once; the relay receives
\* the head of the channel and hands nothing else meanwhile; each line
\* becomes one compose:output event with the Operation's project id, its
\* operation and the line's text and stream; and when the relay ends
\* every line written has been relayed.
C7_OutputRelayedInOrder ==
  /\ [](\A o \in Ops :
          /\ Len(Outputs(o)) + Len(Held(o)) + Len(outputCh[o]) = exec[o].n
          /\ \A i \in 1..Len(Outputs(o)) : Outputs(o)[i].data.json.Line[2] = i
          /\ \A i \in 1..Len(Held(o)) : Held(o)[i].Line[2] = Len(Outputs(o)) + i
          /\ \A i \in 1..Len(outputCh[o]) :
               outputCh[o][i].Line[2] = Len(Outputs(o)) + Len(Held(o)) + i
          /\ relayPc[o] = "range" /\ outputCh[o] # <<>> => ENABLED RelayReceive(o)
          /\ relayPc[o] = "send" => ENABLED Relay(o)
          /\ relayPc[o] = "done" => Len(Outputs(o)) = exec[o].n)
  /\ [][\A o \in Ops :
          /\ Len(outputCh'[o]) < Len(outputCh[o]) =>
               /\ outputCh'[o] = Tail(outputCh[o])
               /\ Held(o) = <<>> /\ Held(o)' = <<Head(outputCh[o])>>
               /\ Outputs(o)' = Outputs(o)
          /\ Outputs(o)' # Outputs(o) =>
               /\ Held(o) # <<>> /\ Held(o)' = <<>>
               /\ handed'[o] =
                    Append(handed[o],
                           [type |-> "compose:output",
                            data |-> [json |->
                              [ProjectID |-> req[o].id,
                               Operation |-> req[o].operation,
                               Line |-> relayOut[o].Line,
                               Stream |-> relayOut[o].Stream]]])]_vars

C7_Witness ==
  \E o \in Ops :
    /\ relayPc[o] = "done"
    /\ Len(Outputs(o)) = 2
    /\ Outputs(o)[1].data.json.Stream = "stderr"
    /\ Outputs(o)[2].data.json.Stream = "stdout"

\* The pull of an update has returned an error or a result reporting failure.
PullFailed(o) ==
  /\ req[o].operation = "update"
  /\ exec[o].pull # NoPull
  /\ exec[o].pull.err # Nil \/ ~exec[o].pull.result.Success

\* C8: after the pull of an update has failed the recreate is never started,
\* no line of the recreate is written or relayed, and the one
\* compose:complete event has success false and the pull's failure message
\* (its error's text, or its result's message when it returned no error).
C8_FailedPullEndsUpdate ==
  \A o \in Ops :
    PullFailed(o) =>
      /\ exec[o].sub = 1
      /\ exec[o].pc = "returned"
      /\ \A i \in 1..Len(outputCh[o]) : outputCh[o][i].Line[1] = 1
      /\ \A i \in 1..Len(Outputs(o)) : Outputs(o)[i].data.json.Line[1] = 1
      /\ Len(Completes(o)) <= 1
      /\ job[o].pc \in AfterComplete => Len(Completes(o)) = 1
      /\ \A i \in 1..Len(Completes(o)) :
           Completes(o)[i] =
             [type |-> "compose:complete",
              data |-> [json |->
                [ProjectID |-> req[o].id, Operation |-> "update",
                 Success |-> FALSE,
                 Message |-> IF exec[o].pull.err # Nil
                             THEN exec[o].pull.err
                             ELSE exec[o].pull.result.Message]]]

C8_Witness ==
  \E o \in Ops :
    /\ PullFailed(o)
    /\ exec[o].pull.err = Nil
    /\ exec[o].n > 0
    /\ job[o].pc = "done"
    /\ relayPc[o] = "done"
    /\ Len(Completes(o)) = 1

\* C9: no failure of an Operation reaches the caller that triggered it,
\* which has already been answered "accepted" when the Operation's terminal
\* event reports the outcome: whenever a compose:complete event has been
\* handed to the Broker, the 202 response of its request has been written.
C9_AnsweredBeforeCompleteEvent ==
  \A o \in Ops : Len(Completes(o)) > 0 => req[o].pc = "answered"

\* C10: while the handler of a known project has started its goroutines and
\* not yet answered, the 202 response is enabled whatever the action, the
\* intake and the mailboxes are doing, and the caller is answered 202 even
\* if the action takes no further step.
C10_AcceptedWithoutWaiting ==
  /\ [](\A o \in Ops : req[o].pc = "started" => ENABLED Respond(o))
  /\ \A o \in Ops :
       (req[o].pc = "started") ~> (req[o].pc = "answered" /\ req[o].status = 202)

C10_Witness ==
  \E o \in Ops :
    /\ req[o].pc = "answered"
    /\ req[o].status = 202
    /\ job[o].pc = "op"
    /\ exec[o].pc = "wait"
    /\ Len(broadcast) = IntakeCap
    /\ Len(Events["c1"]) = MailboxCap

(***************************************************************************)
(* Status Reconciliation's claims.                                         *)
(***************************************************************************)
Statuses(o) == Handed(o, "project:status")

\* C11: an Operation hands its project:status event to the Broker only
\* after its compose:complete event; an Operation on a project the scanner
\* still knows hands exactly one, once its reconciliation is over, and with
\* no other writer about the event carries the project's stored record.
C11_StatusEventFollowsCompleteEvent ==
  \A o \in Ops :
    /\ \A i \in 1..Len(handed[o]) :
         handed[o][i].type = "project:status" =>
           \E j \in 1..(i - 1) : handed[o][j].type = "compose:complete"
    /\ Len(Statuses(o)) <= 1
    /\ (job[o].pc \in {"close", "done"} /\ GetProject(req[o].id)) =>
         /\ Len(Statuses(o)) = 1
         /\ Statuses(o)[1].data.json =
              [ID |-> req[o].id, Name |-> projects[req[o].id].Name,
               Status |-> projects[req[o].id].Status,
               Running |-> projects[req[o].id].Running,
               Total |-> projects[req[o].id].Total]

C11_Witness ==
  \E o \in Ops :
    /\ job[o].pc = "done"
    /\ Len(handed[o]) >= 2
    /\ handed[o][Len(handed[o]) - 1].type = "compose:complete"
    /\ handed[o][Len(handed[o])].type = "project:status"
    /\ handed[o][Len(handed[o])].data.json.Status = "partial"

\* The status the spec gives a group of total members, running of them
\* running.
StatusOf(running, total) ==
  IF running = 0 THEN "stopped"
  ELSE IF running = total /\ total > 0 THEN "running"
  ELSE "partial"

RunningIn(containers) ==
  Cardinality({i \in 1..Len(containers) : containers[i] = "running"})

\* C12: at both call sites a reconciliation whose member query succeeded
\* takes running to be the number of members in state running and the
\* status to be stopped for running = 0, running for running = total > 0
\* and partial otherwise, total being the total the site uses.
C12_StatusIsAFunctionOfRunningAndTotal ==
  /\ [](/\ \A running \in 0..MaxGroup, total \in 0..MaxGroup :
             /\ HandlerStatus(running, total) = StatusOf(running, total)
             /\ WatcherStatus(running, total) = StatusOf(running, total)
        /\ \A l \in MemberLists : CountRunning(l) = RunningIn(l)
        /\ \A i \in 1..Len(recons) :
             /\ recons[i].running = RunningIn(recons[i].containers)
             /\ recons[i].status =
                  StatusOf(RunningIn(recons[i].containers), recons[i].total))
  /\ [][\A o \in Ops :
          /\ (job[o].pc = "setRunning" /\ job'[o].pc = "setStatus") =>
               projects'[req[o].id].Running = RunningIn(job[o].containers)
          /\ (job[o].pc = "setStatus" /\ job'[o].pc = "argument") =>
               projects'[req[o].id].Status =
                 StatusOf(RunningIn(job[o].containers), projects[req[o].id].Total)]_vars

C12_Witness ==
  /\ \E i \in 1..Len(recons) :
       /\ recons[i].status = "partial"
       /\ recons[i].running = 1
       /\ recons[i].total = 2
  /\ \E o \in Ops :
       /\ job[o].pc = "done"
       /\ job[o].containers = <<"running", "running">>
       /\ Len(Statuses(o)) = 1
       /\ Statuses(o)[1].data.json.Status = "running"

\* The project:status events the Watcher has handed to the Broker.
WatcherStatuses == SelectSeq(published, LAMBDA e : e.type = "project:status")
\* The container events of known projects the Watcher has taken.
WatcherTriggers ==
  SelectSeq(published, LAMBDA e : /\ e.type = "container:status"
                                  /\ FindProject(e.data.json.Project) # {})

\* C13: the total a reconciliation stores and decides the status by is the
\* number of members the query returned.
C13_TotalIsTheMemberCount ==
  \A i \in 1..Len(recons) :
    /\ recons[i].total = Len(recons[i].containers)
    /\ recons[i].status =
         StatusOf(RunningIn(recons[i].containers), Len(recons[i].containers))

\* C14: once the Watcher is back at its select, every container event of a
\* known project it has taken has been answered by a project:status
\* event, whether the member query succeeded or failed.
C14_FailedQueryStillPublishes ==
  wPc = "select" => Len(WatcherStatuses) = Len(WatcherTriggers)

\* A reconciliation is between its query and the end of its writes.
Reconciling ==
  \/ wPc = "store"
  \/ \E o \in Requests :
       job[o].pc \in {"setRunning", "setStatus", "argument", "storeRunning",
                      "store", "pageSetStatus"}

\* C15: while no reconciliation is in the middle of its writes, every
\* project's stored status is unknown or the status of its stored
\* (running, total).
C15_StoredStatusFitsStoredCounts ==
  ~Reconciling =>
    \A id \in DOMAIN projects :
      \/ projects[id].Status = "unknown"
      \/ projects[id].Status = StatusOf(projects[id].Running, projects[id].Total)

\* C16: a project whose stored status is unknown had its status last
\* written by a reconciliation whose member query failed.
C16_UnknownOnlyAfterAFailedQuery ==
  \A id \in DOMAIN projects :
    projects[id].Status = "unknown" => lastWrite[id] = "failed"

\* C17: every step that changes a record of the store is made by one who
\* holds the scanner's write lock: a write of Scanner.UpdateProjectStatus,
\* or a rescan, whoever triggers the reconciliation (the Watcher, an
\* Operation or a read request).
C17_EveryWriteUnderTheWriteLock ==
  [][projects' # projects =>
       \/ WatchStoreRunning \/ WatchStore
       \/ \E r \in Requests : OpStoreRunning(r) \/ OpStore(r)
       \/ \E v \in Views, n \in 0..Len(ProjectOrder) : Refresh(v, n)
       \/ \E id \in ProjectIds : RefreshProject(id)]_vars

\* C18: every recomputation is followed by its project:status event, also
\* when the record stored is the one that was there: the Watcher's count of
\* status events follows its count of recomputations, the Runner hands over
\* its one event, and at the publishing step nothing holds the event back.
C18_EveryRecomputationPublishes ==
  /\ wPc = "publish" =>
       /\ Len(WatcherStatuses) = Len(recons) - 1
       /\ ENABLED WatchPublish
  /\ wPc # "publish" => Len(WatcherStatuses) = Len(recons)
  /\ \A i \in 1..Len(WatcherStatuses) :
       WatcherStatuses[i].data.json =
         [ID |-> recons[i].proj, Name |-> recons[i].proj,
          Status |-> recons[i].status,
          Running |-> recons[i].running,
          Total |-> recons[i].total]
  /\ \A o \in Ops :
       /\ job[o].pc = "publish" => ENABLED OpPublish(o)
       /\ (job[o].pc \in {"close", "done"} /\ GetProject(req[o].id))
            => Len(Statuses(o)) = 1

C18_Witness ==
  /\ wPc = "select"
  /\ \E i \in 1..Len(recons) :
       /\ recons[i].before.Status = recons[i].stored.Status
       /\ recons[i].before.Running = recons[i].stored.Running
       /\ Len(WatcherStatuses) >= i
  /\ \E o \in Ops : job[o].pc = "done" /\ Len(Statuses(o)) = 1

\* C19: two reconciliations in a row of the same project on the same member
\* list store the same record and publish the same event.
C19_ReconciliationIsIdempotent ==
  \A i \in 1..(Len(recons) - 1) :
    (recons[i].proj = recons[i + 1].proj
       /\ recons[i].containers = recons[i + 1].containers) =>
      /\ recons[i + 1].stored = recons[i].stored
      /\ recons[i + 1].stored = recons[i + 1].before
      /\ Len(WatcherStatuses) >= i + 1 => WatcherStatuses[i + 1] = WatcherStatuses[i]

C19_Witness ==
  /\ wPc = "select"
  /\ Len(recons) = 2
  /\ Len(WatcherStatuses) = 2
  /\ recons[1].containers = <<"running", "exited">>
  /\ recons[2].containers = <<"running", "exited">>
  /\ WatcherStatuses[1] = WatcherStatuses[2]

\* C20: the Watcher subscribes again after every end of a feed, never
\* sooner than ReconnectDelay after it, with the same delay every time;
\* a sleep that is over can always be followed by the subscription, and the
\* loop has no state in which it has given up.
C20_ReconnectsAfterTheDelayForEver ==
  /\ wPc \in {"start", "select", "sleep"}
  /\ wPc = "start" => subscribedAt = <<>> /\ failedAt = <<>>
  /\ wPc = "select" => Len(subscribedAt) = Len(failedAt) + 1
  /\ wPc = "sleep" =>
       /\ Len(subscribedAt) = Len(failedAt)
       /\ wakeAt = failedAt[Len(failedAt)] + ReconnectDelay
       /\ now >= wakeAt => ENABLED WatchSubscribe
  /\ \A i \in 1..Len(failedAt) :
       /\ subscribedAt[i] <= failedAt[i]
       /\ i + 1 <= Len(subscribedAt) =>
            subscribedAt[i + 1] >= failedAt[i] + ReconnectDelay

C20_Witness ==
  /\ wPc = "select"
  /\ Len(failedAt) = 3
  /\ Len(subscribedAt) = 4
  /\ subscribedAt[4] = failedAt[3] + ReconnectDelay

(***************************************************************************)
(* The Watcher and the shutdown of the process.                            *)
(***************************************************************************)
\* C21: once the shutdown signal has been given the Watcher makes no
\* further subscription attempt: no step taken after the signal is a
\* client.WatchEvents call.
C21_NoSubscriptionAfterTheSignal ==
  [][mainPc # "serving" => subscribedAt' = subscribedAt]_vars

\* The lookup table of the action normalization.
ActionTable ==
  [start |-> "running", unpause |-> "running", stop |-> "exited",
   die |-> "exited", kill |-> "exited", pause |-> "paused",
   restart |-> "restarting"]

\* The container:status events the Watcher has published.
ContainerStatuses ==
  SelectSeq(published, LAMBDA e : e.type = "container:status")

\* C22: in every container:status event the Watcher publishes, the state
\* is the table's entry for the raw action if the table has one (start and
\* unpause: running; stop, die and kill: exited; pause: paused; restart:
\* restarting) and the raw action itself, unchanged, otherwise; and the
\* event carries the raw action as it came.
C22_NormalizationIsTheTable ==
  /\ Len(ContainerStatuses) = nEvents
  /\ \A i \in DOMAIN ContainerStatuses :
       LET d == ContainerStatuses[i].data.json IN
         /\ d.Status \in RawActions
         /\ d.State = IF d.Status \in DOMAIN ActionTable
                      THEN ActionTable[d.Status] ELSE d.Status
  /\ wPc # "start" /\ nEvents > 0 =>
       ContainerStatuses[nEvents].data.json.Status = wEvent.Action

\* An action of the table and an action outside it have been published,
\* the second with itself as its state.
C22_Witness ==
  \E i, j \in DOMAIN ContainerStatuses :
    /\ ContainerStatuses[i].data.json.Status = "kill"
    /\ ContainerStatuses[i].data.json.State = "exited"
    /\ ContainerStatuses[j].data.json.Status = "oom"
    /\ ContainerStatuses[j].data.json.State = "oom"

\* The step takes a container event from the feed.
TakesEvent == nEvents' = nEvents + 1

\* C23: the step that takes a container event hands exactly one
\* container:status event, with the raw action and the event's project, to
\* the Broker and nothing else, and it goes on to a reconciliation if and
\* only if the event's project is not empty; a reconciliation is in
\* progress only for the project of the event just published; and every
\* project:status event the Watcher publishes comes right after the
\* container:status event of a container of that project.
C23_StatusEventFirstThenReconcileIfGrouped ==
  /\ [](/\ Len(ContainerStatuses) = nEvents
        /\ wPc \in {"query", "members", "storeRunning", "store", "publish"} =>
             /\ wEvent.Project # ""
             /\ published[Len(published)].type = "container:status"
             /\ published[Len(published)].data.json.Project = wEvent.Project
        /\ wPc \in {"members", "storeRunning", "store", "publish"} =>
             projects[wLocal.proj].Name = wEvent.Project
        /\ \A i \in DOMAIN published :
             published[i].type = "project:status" =>
               /\ i > 1
               /\ published[i - 1].type = "container:status"
               /\ published[i - 1].data.json.Project # ""
               /\ published[i - 1].data.json.Project = published[i].data.json.Name)
  /\ [][TakesEvent =>
          /\ wPc = "select"
          /\ Len(published') = Len(published) + 1
          /\ SubSeq(published', 1, Len(published)) = published
          /\ published'[Len(published')].type = "container:status"
          /\ published'[Len(published')].data.json.Status = wEvent'.Action
          /\ published'[Len(published')].data.json.Project = wEvent'.Project
          /\ broadcast' = Append(broadcast, published'[Len(published')])
          /\ (wPc' = "query") <=> (wEvent'.Project # "")
          /\ (wPc' = "select") <=> (wEvent'.Project = "")]_vars

\* An event without a project was answered by its container:status event
\* alone, and an event of a known project by a container:status event and
\* then a project:status event.
C23_Witness ==
  /\ wPc = "select"
  /\ Len(published) = 3
  /\ published[1].type = "container:status" /\ published[1].data.json.Project = ""
  /\ published[2].type = "container:status" /\ published[2].data.json.Project = "p1"
  /\ published[3].type = "project:status"

(***************************************************************************)
(* The Broker: order, Unregister, Register, shutdown.                      *)
(***************************************************************************)
\* The place of an event in the order the intake accepted events: the
\* events enqueued before the behaviour starts come first, in the order
\* they wait in; a Broadcast call that is accepted is numbered after all
\* that were made before it; the events earlier passes left in a
\* mailbox precede them all.
IntakePos(e) == IF e = OldEvent THEN 0 ELSE e.data

\* The events written to c's transport, in order.
WrittenEvents(c) == SelectSeq(written[c], LAMBDA w : w.kind = "event")

\* C24: the intake is first-in first-out (an accepted event goes to its
\* tail with a place after every event accepted before, the control loop
\* takes its head), and for every client the events written to its
\* transport are in intake order, none of them twice, and all before the
\* events still waiting in its mailbox: a subsequence of the intake order,
\* with gaps where an event was dropped for that client or passed while it
\* was not a member.
C24_DeliveryInIntakeOrder ==
  /\ [](/\ nPasses = 0 /\ nBroadcast = 0 =>
             \A i \in 1..(Len(broadcast) - 1) :
               IntakePos(broadcast[i]) < IntakePos(broadcast[i + 1])
        /\ \A c \in Clients :
             LET w == WrittenEvents(c) IN
               /\ \A i \in 1..(Len(w) - 1) :
                    /\ IntakePos(w[i].ev) <= IntakePos(w[i + 1].ev)
                    /\ IntakePos(w[i].ev) = IntakePos(w[i + 1].ev)
                         => w[i + 1].ev = OldEvent
               /\ w # <<>> /\ Events[c] # <<>> =>
                    /\ IntakePos(w[Len(w)].ev) <= IntakePos(Events[c][1])
                    /\ IntakePos(w[Len(w)].ev) = IntakePos(Events[c][1])
                         => Events[c][1] = OldEvent
               /\ Events[c] # <<>> =>
                    IntakePos(Events[c][Len(Events[c])]) <= IntakePos(fanEvent))
  /\ [][broadcast' # broadcast =>
          \/ /\ broadcast # <<>>
             /\ broadcast' = Tail(broadcast)
             /\ fanEvent' = Head(broadcast)
          \/ /\ Len(broadcast') = Len(broadcast) + 1
             /\ SubSeq(broadcast', 1, Len(broadcast)) = broadcast
             /\ IntakePos(broadcast'[Len(broadcast')]) > IntakePos(fanEvent)
             /\ broadcast # <<>> =>
                  IntakePos(broadcast'[Len(broadcast')])
                    > IntakePos(broadcast[Len(broadcast)])]_vars

\* One client was written two events in the order the intake held them;
\* for another client the first of them was dropped and the second waits
\* in its mailbox behind older events.
C24_Witness ==
  \E c, d \in Clients :
    /\ c # d
    /\ Len(written[c]) = 3
    /\ written[c][2].kind = "event" /\ written[c][3].kind = "event"
    /\ IntakePos(written[c][2].ev) < IntakePos(written[c][3].ev)
    /\ written[c][2].ev \in dropped[d]
    /\ Events[d] # <<>>
    /\ Events[d][Len(Events[d])] = written[c][3].ev
    /\ Events[d][1] = OldEvent

\* The step takes a message for client c from b.unregister.
TakesUnregister(c) == unregs'[c] = unregs[c] + 1

\* C25: the control loop never panics; and when it takes an Unregister
\* for a member it removes that client from the membership and closes its
\* mailbox, which was open; when it takes one for a client that is not a
\* member (one already unregistered, or never registered) the membership
\* and every mailbox stay as they are; either way no other client's
\* membership or mailbox changes and no mailbox loses or gains an event.
C25_UnregisterIsIdempotent ==
  /\ [](runPc # "panic")
  /\ [][\A c \in Clients :
          TakesUnregister(c) =>
            /\ IF c \in clients
               THEN /\ clients' = clients \ {c}
                    /\ ~closed[c]
                    /\ closed' = [closed EXCEPT ![c] = TRUE]
               ELSE /\ clients' = clients
                    /\ closed' = closed
            /\ Events' = Events
            /\ runPc' = runPc]_vars

\* The connections whose Register the control loop has accepted and whose
\* Unregister it has not taken.
Accepted(c) == connPc[c] \in {"handshake", "serve", "unregister"}

\* C26: while the control loop runs, a Register call that waits is taken
\* whenever the loop stands at its select, and every Register call is
\* accepted in the end (or the loop has returned); having accepted it the
\* loop does nothing but make the client a member and is back at its
\* select, so that every client whose Register was accepted is a member
\* whenever the loop takes a message; and every pass that begins
\* afterwards, until the loop has taken the client's Unregister, has the
\* client among the members it offers its event to.
C26_RegisterAcceptedAndEffectiveAtOnce ==
  /\ [](\A c \in Clients :
          /\ connPc[c] = "register" /\ runPc = "select" => ENABLED RunRegister(c)
          /\ runPc = "insert" /\ regClient = c => ENABLED RunInsert(c)
          /\ runPc = "select" /\ Accepted(c) => c \in clients
          /\ runPc = "fanout" /\ Accepted(c) => c \in fanMembers)
  /\ [][\A c \in Clients :
          /\ connPc[c] = "register" /\ connPc'[c] # "register" =>
               connPc'[c] = "handshake" /\ runPc' = "insert" /\ regClient' = c
          /\ runPc = "insert" /\ regClient = c /\ runPc' # "insert" =>
               runPc' = "select" /\ clients' = clients \cup {c}
          /\ nPasses' = nPasses + 1 /\ Accepted(c) => c \in fanMembers']_vars
  /\ \A c \in Clients :
       connPc[c] = "register" ~> (Accepted(c) \/ runPc = "returned")

\* C27: once Close has been called the control loop takes the signal in
\* the end; the step in which it does closes the mailbox of every member
\* (each was open), empties the membership and ends the loop, with no
\* panic; and from then on the membership stays empty, a Register call
\* is never taken, no mailbox is closed or gains an event, and a Broadcast
\* call leaves its event in the intake at most.
C27_ShutdownClosesAllAndAdmitsNothing ==
  /\ [](/\ runPc # "panic"
        /\ runPc = "returned" =>
             /\ cancelled
             /\ clients = {}
             /\ \A c \in Clients : ~ENABLED RunRegister(c)
             /\ \A c \in Clients : Accepted(c) => closed[c])
  /\ [][/\ runPc # "returned" /\ runPc' = "returned" =>
            /\ clients' = {}
            /\ \A c \in clients : ~closed[c] /\ closed'[c]
            /\ \A c \in Clients \ clients : closed'[c] = closed[c]
            /\ Events' = Events
        /\ runPc = "returned" =>
            /\ runPc' = "returned"
            /\ clients' = {}
            /\ closed' = closed
            /\ \A c \in Clients :
                 Events'[c] = Events[c] \/ Events'[c] = Tail(Events[c])]_vars
  /\ cancelled ~> runPc = "returned"

\* C28: a serving loop whose transport has been cancelled or whose
\* mailbox has been closed returns in the end and its deferred Unregister
\* is taken: the handler does not stay blocked for ever.
C28_ServingLoopEndsAndUnregisters ==
  \A c \in Clients :
    (connPc[c] = "serve" /\ (reqDone[c] \/ closed[c])) ~> connPc[c] = "done"

(***************************************************************************)
(* Operations: cancellation and concurrency.                               *)
(***************************************************************************)
\* C29: an action that is running when the shutdown signal arrives is
\* aborted: when it ends, it ends with a failure, so that its
\* compose:complete event reports success = false; and the process does
\* not end with an accepted Operation whose terminal event is still to
\* come.
C29_ShutdownAbortsTheAction ==
  /\ [](mainPc = "exited" => \A o \in Ops : job[o].pc \notin {"op", "complete"})
  /\ [][\A o \in Ops :
          (mainPc # "serving" /\ job[o].pc = "op" /\ job'[o].pc # "op")
            => ~Success(job'[o].result, job'[o].err)]_vars

\* The Operation an event of the intake belongs to, by its operation.
OfOperation(e, operation) ==
  e.type \in {"compose:output", "compose:complete"}
    /\ e.data.json.Operation = operation

\* C30: a request for a known project can be started in every state in
\* which it has not been made, whatever the other Operation on the same
\* project is doing, and the step that starts it starts its goroutines
\* and refuses nothing; the events two Operations hand to the Broker go
\* into the one intake in the order of the calls, each Operation's own
\* events in its own order.
C30_NoMutualExclusionPerTarget ==
  /\ [](\A o \in Ops, id \in ProjectIds :
          req[o].pc = "idle" =>
            ENABLED Run(o, id, IF o = "o1" THEN "restart" ELSE "up"))
  /\ [](\A o \in Ops :
          SelectSeq(broadcast,
                    LAMBDA e : OfOperation(e, IF o = "o1" THEN "restart" ELSE "up"))
            = handed[o])
  /\ [][\A o \in Ops :
          req[o].pc = "idle" /\ req'[o].pc # "idle" =>
            /\ req'[o].pc = "started"
            /\ job'[o].pc = "op"
            /\ relayPc'[o] = "range"
            /\ \A other \in Ops \ {o} :
                 job'[other] = job[other] /\ exec'[other] = exec[other]]_vars

\* Both Operations on p1 are in flight, and in the intake an output event
\* of the up stands between an output event of the restart and the
\* restart's compose:complete event.
C30_Witness ==
  /\ req["o1"].id = "p1" /\ req["o2"].id = "p1"
  /\ job["o1"].pc = "query" /\ job["o2"].pc = "op"
  /\ \E i, j, k \in DOMAIN broadcast :
       /\ i < j /\ j < k
       /\ broadcast[i].type = "compose:output" /\ OfOperation(broadcast[i], "restart")
       /\ broadcast[j].type = "compose:output" /\ OfOperation(broadcast[j], "up")
       /\ broadcast[k].type = "compose:complete" /\ OfOperation(broadcast[k], "restart")

(***************************************************************************)
(* The keep-alive ticker.                                                  *)
(***************************************************************************)
\* The step writes a keep-alive comment to the transport of c.
WritesKeepAlive(c) ==
  /\ Len(written'[c]) = Len(written[c]) + 1
  /\ written'[c][Len(written'[c])] = KeepAlive

\* The keep-alive comments written to the transport of c so far.
KeepAlives(c) == Len(SelectSeq(written[c], LAMBDA w : w.kind = "keepalive"))

\* C31 as stated: a keep-alive comment is written only in a step that
\* starts with a tick waiting in ticker.C and with the mailbox of that
\* client empty.
C31_HeartbeatOnlyWhenNoEventIsAvailable ==
  [][\A c \in Clients :
       WritesKeepAlive(c) => tickerC[c] /\ Events[c] = <<>>]_vars

\* C31 amended: a keep-alive comment is written only by the serving loop,
\* in a step that starts with a tick waiting in ticker.C, whatever the
\* mailbox holds; the comments written and the tick that waits never
\* outnumber the full periods the ticker has been running.
C31_HeartbeatOnlyAfterATick ==
  /\ [][\A c \in Clients :
          WritesKeepAlive(c) => connPc[c] = "serve" /\ tickerC[c]]_vars
  /\ [](\A c \in Clients :
          KeepAlives(c) + (IF tickerC[c] THEN 1 ELSE 0)
            <= tickerAge[c] \div KeepAliveInterval)

\* A keep-alive comment is the last thing the loop wrote, it was written
\* in the second of the tick, and an event waits in the mailbox.
C31_Witness ==
  /\ connPc["c1"] = "serve"
  /\ written["c1"] = <<Connected, KeepAlive>>
  /\ tickerAge["c1"] = KeepAliveInterval
  /\ Events["c1"] # <<>>

\* C32: the first write to a transport is the connected handshake, made by
\* the handler standing right after its registration while the client is
\* a member of the Broker, and it stays the first and only handshake of
\* the transport, before every event and every keep-alive comment.
C32_RegisteredThenHandshakeFirst ==
  /\ [][\A c \in Clients :
          written[c] = <<>> /\ written'[c] # <<>> =>
            /\ connPc[c] = "handshake"
            /\ written'[c] = <<Connected>>
            /\ c \in clients]_vars
  /\ [](\A c \in Clients :
          written[c] # <<>> =>
            /\ written[c][1] = Connected
            /\ \A i \in 2..Len(written[c]) : written[c][i] # Connected)

C34_StatusEventFieldsAgree ==
  \A e \in UNION {Range(Statuses(o)) : o \in Ops} \cup Range(WatcherStatuses) :
    \/ e.data.json.Status = "unknown"
    \/ e.data.json.Status = StatusOf(e.data.json.Running, e.data.json.Total)

\* C35: once the action of an accepted Operation has returned, its
\* compose:complete event is eventually handed to the Broker, its output
\* channel is eventually closed and its relay eventually ends; the channel
\* is closed once, by the Operation's goroutine and after the action has
\* returned, it stays closed and gains no line after the close, and the
\* relay ends only on the closed and drained channel; a full output
\* channel under a running action eventually has room again, the relay
\* being able to receive a line whenever it holds none and to hand over
\* the line it holds whatever the Broker's intake holds.
C35_OutputChannelClosedOnceAndDrained ==
  /\ \A o \in Ops :
       (exec[o].pc = "returned") ~> (Len(Completes(o)) = 1)
  /\ \A o \in Ops :
       (exec[o].pc = "returned") ~> (chClosed[o] /\ relayPc[o] = "done")
  /\ \A o \in Ops :
       (job[o].pc = "op" /\ Len(outputCh[o]) = OutputCap)
         ~> (Len(outputCh[o]) < OutputCap)
  /\ [](\A o \in Ops :
          /\ chClosed[o] => exec[o].pc = "returned" /\ job[o].pc = "done"
          /\ relayPc[o] = "done" => chClosed[o] /\ outputCh[o] = <<>>
          /\ relayPc[o] = "range" /\ outputCh[o] # <<>> => ENABLED RelayReceive(o)
          /\ relayPc[o] = "send" => ENABLED Relay(o))
  /\ [][\A o \in Ops :
          chClosed[o] =>
            /\ chClosed'[o]
            /\ outputCh'[o] = outputCh[o] \/ outputCh'[o] = Tail(outputCh[o])]_vars

\* The k-th event the producers broadcast in the behaviour.
Broadcasted(k) == Event("log", IntakeCap + k)

\* C36: an event that stands in the intake is eventually taken by the
\* control loop and its fan-out pass over the members of that moment is
\* carried to its end (the loop is back at its select with that event as
\* the event of its last pass), unless the Broker is shut down; this under
\* fairness of the control loop alone, while connections register and
\* unregister, producers broadcast and a mailbox is full.
C36_AcceptedEventIsEventuallyFannedOut ==
  \A k \in 1..MaxBroadcast :
    (Broadcasted(k) \in Range(broadcast))
      ~> (cancelled \/ (fanEvent = Broadcasted(k) /\ runPc = "select"
                          /\ Broadcasted(k) \notin Range(broadcast)))

\* The pass of the second event of the behaviour has ended, the Broker
\* not being shut down; c1, whose mailbox is full, was skipped, and c2, who
\* registered in between, has the event.
C36_Witness ==
  /\ ~cancelled
  /\ runPc = "select"
  /\ fanEvent = Broadcasted(2)
  /\ Len(Events["c1"]) = MailboxCap
  /\ Broadcasted(2) \in dropped["c1"]
  /\ Broadcasted(2) \in Range(Events["c2"])
  /\ Broadcasted(1) \notin Range(Events["c2"])

\* The Operation o has reconciled the project of the i-th recomputation
\* of the Watcher from the same member list.
SameSnapshot(o, i) ==
  /\ req[o].id = recons[i].proj
  /\ job[o].containers = recons[i].containers

\* C37: the two status functions agree on every running and total; an
\* Operation's reconciliation and a Watcher's recomputation of the same
\* project from the same member list, whichever comes first and however
\* their steps interleave, leave the same record in the store, and the
\* project:status events the two hand to the Broker are equal in id,
\* name, status, running and total.
C37_ReconciliationsAgreeOnSuccess ==
  /\ [](\A running, total \in 0..MaxGroup :
          WatcherStatus(running, total) = HandlerStatus(running, total))
  /\ [][\A o \in Ops :
          job[o].pc = "store" /\ job'[o].pc = "readStatus" =>
            \A i \in DOMAIN recons :
              SameSnapshot(o, i) => projects'[req[o].id] = recons[i].stored]_vars
  /\ [][Len(recons') > Len(recons) =>
          \A o \in Ops :
            job[o].pc \in {"readStatus", "readRunning", "publish", "close", "done"}
              /\ req[o].id = recons'[Len(recons')].proj
              /\ job[o].containers = recons'[Len(recons')].containers =>
                recons'[Len(recons')].stored = projects[req[o].id]]_vars
  /\ [](\A o \in Ops, i \in DOMAIN recons :
          SameSnapshot(o, i) /\ Statuses(o) # <<>> /\ i \in DOMAIN WatcherStatuses =>
            Statuses(o)[1].data = WatcherStatuses[i].data)

\* Both have reconciled p1, which declares two services, from a list of
\* one running and one exited container, and both have published partial
\* with running 1 and total 2.
C37_Witness ==
  /\ projects["p1"].Total = 2
  /\ Len(recons) = 1 /\ SameSnapshot("o1", 1)
  /\ recons[1].containers = <<"running", "exited">>
  /\ Len(Statuses("o1")) = 1 /\ Len(WatcherStatuses) = 1
  /\ Statuses("o1")[1].data.json.Status = "partial"
  /\ WatcherStatuses[1].data.json.Running = 1

\* C38: the step that takes a request for an id the scanner does not hold
\* answers it 404 and changes nothing else: no goroutine is started, the
\* intake, the store and the output channels stay as they are; and the
\* request never has a goroutine, an output line or an event handed to
\* the Broker afterwards, whatever the other Operation and the Watcher do.
C38_UnknownTargetIsRejectedWithoutEffect ==
  /\ [][\A o \in Ops :
          req[o].pc = "idle" /\ req'[o].pc # "idle"
            /\ req'[o].id \notin DOMAIN projects =>
              /\ req'[o].pc = "answered" /\ req'[o].status = 404
              /\ UNCHANGED <<projects, orphans, lastWrite, outputCh, chClosed, relayPc, relayOut, job,
                             exec, handed, brokerVars, watchVars>>]_vars
  /\ [](\A o \in Ops :
          req[o].pc # "idle" /\ req[o].id \notin DOMAIN projects =>
            /\ req[o].pc = "answered" /\ req[o].status = 404
            /\ job[o] = NoJob /\ exec[o] = NoExec /\ relayPc[o] = "none"
            /\ outputCh[o] = <<>> /\ ~chClosed[o]
            /\ handed[o] = <<>>)

\* The request for px was answered 404 while the restart of p1 was in its
\* reconciliation, which has since stored and published p1's status; the
\* request for px has left nothing.
C38_Witness ==
  /\ req["o2"].id = "px" /\ req["o2"].status = 404
  /\ req["o2"].operation = "pull"
  /\ job["o2"] = NoJob /\ handed["o2"] = <<>>
  /\ Len(Statuses("o1")) = 1
  /\ projects["p1"].Status = "stopped"

\* C39: the Watcher never panics, and the step that takes an event from
\* the feed, whatever the event's id, action, name and project, hands its
\* container:status event to the Broker and leaves the Watcher in its
\* loop: back at the select, or in the reconciliation that leads back to
\* it.
C39_WatcherSurvivesEveryEvent ==
  /\ [](wPc # "panic" /\ ProcessRuns)
  /\ [][TakesEvent =>
          /\ published' = Append(published, ContainerStatusEvent(wEvent'))
          /\ broadcast' = Append(broadcast, ContainerStatusEvent(wEvent'))
          /\ wPc' \in {"select", "query"}]_vars

\* The control loop takes the Register of c, or inserts the client it took.
TakesRegister(c) ==
  \/ connPc[c] = "register" /\ connPc'[c] = "handshake"
  \/ runPc = "insert" /\ regClient = c /\ runPc' # "insert"

\* Client d is a member, and its mailbox is, after the step as before it.
Untouched(d) ==
  /\ (d \in clients') <=> (d \in clients)
  /\ Events'[d] = Events[d]
  /\ closed'[d] = closed[d]

\* C40: the step in which the control loop takes the Register or the
\* Unregister of a client leaves every other client's membership and
\* mailbox as they were, and no mailbox's contents change in it; a
\* Broadcast call, the step that takes an event from the intake and the
\* steps of its pass leave the membership and the closed flags as they
\* were; taking the event changes no mailbox, and a step of the pass
\* changes the mailbox of the one member it visits, by appending the
\* event of the pass at the tail, or not at all.
C40_BrokerActionsKeepTheirFrame ==
  /\ [][\A c \in Clients :
          TakesRegister(c) \/ TakesUnregister(c) =>
            /\ \A d \in Clients \ {c} : Untouched(d)
            /\ Events' = Events
            /\ broadcast' = broadcast]_vars
  /\ [][nBroadcast' # nBroadcast \/ nPasses' # nPasses =>
          \A d \in Clients : Untouched(d)]_vars
  /\ [][fanTodo' # fanTodo /\ runPc = "fanout" =>
          /\ clients' = clients /\ closed' = closed
          /\ \E c \in fanTodo :
               /\ fanTodo' = fanTodo \ {c}
               /\ Events'[c] \in {Events[c], Append(Events[c], fanEvent)}
               /\ \A d \in Clients \ {c} : Events'[d] = Events[d]]_vars

====
